---- MODULE Spec2Model ----
(***************************************************************************)
(* GphlWorkflow (mxcubecore/HardwareObjects/GphlWorkflow.py): the workflow *)
(* controller that drains the inbound message queue of the external        *)
(* workflow engine, dispatches each message to its handler and keeps the   *)
(* per-session state (specific state, data-collection group, subprocess    *)
(* names, goniostat translations).                                         *)
(*                                                                         *)
(* Python values are encoded with uniform types: None is the string        *)
(* "None", a falsy correlation id is 0, payloads and responses are         *)
(* records with a `type` field, exceptions are named by a string.          *)
(***************************************************************************)
EXTENDS Integers, Sequences, FiniteSets, TLC

VARIABLES
    state,                      \* HardwareObject state (self._state)
    specific_state,             \* GphlWorkflowStates (self._specific_state)
    _queue_entry,               \* None or "queue_entry"
    data_model,                 \* the queue entry's GphlWorkflow model object
    _workflow_queue,            \* None or "Queue": the reference held by self
    queue,                      \* contents of the gevent Queue object
    _data_collection_group,     \* None or the name of the open TaskGroup
    _server_subprocess_names,   \* dict correlation_id -> subprocess name
    _return_parameters,         \* None or "AsyncResult"
    _use_fine_zoom,             \* BOOLEAN
    settings,                   \* configuration, set on load
    pc,                         \* where the pre_execute/execute greenlet is
    current,                    \* message whose handler is suspended
    results,                    \* result_list objects of the connection
    sent,                       \* messages the engine has put in this run
    engine,                     \* which message alphabet the engine draws from
    last                        \* what the latest step did (observation)

vars == << state, specific_state, _queue_entry, data_model, _workflow_queue,
           queue, _data_collection_group, _server_subprocess_names,
           _return_parameters, _use_fine_zoom, settings, pc, current, results,
           sent, engine, last >>

-----------------------------------------------------------------------------
(* Bounds *)

\* messages the external engine puts on the queue in one run
MaxMessages == 2
\* sweeps of a geometric strategy
MaxSweeps == 3
\* scans of a collection proposal
MaxScans == 3
\* indexing solutions of a lattice choice
MaxSolutions == 3
\* rotation settings of a translational calibration
MaxRotations == 3

\* the most lines in an output of the recen program
MaxLines == 3

-----------------------------------------------------------------------------
(* Python constants *)

None == "None"

\* GphlWorkflowStates
SPECIFIC_STATES == {"BUSY", "READY", "FAULT", "ABORTED", "COMPLETED", "UNKNOWN"}

\* the stop sentinel put on the queue (the StopIteration class object)
StopIteration ==
    [kind |-> "StopIteration", payload |-> [type |-> "None"],
     correlation_id |-> 0, result_list |-> None]

\* the keys of self._processor_functions
ProcessorFunctions ==
    { "String", "SubprocessStarted", "SubprocessStopped",
      "RequestConfiguration", "GeometricStrategy", "CollectionProposal",
      "ChooseLattice", "RequestCentring", "PrepareForCentring",
      "ObtainPriorInformation", "WorkflowAborted", "WorkflowCompleted",
      "WorkflowFailed" }

\* a dispatch table whose lookup falls back to workflow_failed
processor_function_or_failed(message_type) ==
    CASE message_type = "String" -> "echo_info_string"
      [] message_type = "SubprocessStarted" -> "echo_subprocess_started"
      [] message_type = "SubprocessStopped" -> "echo_subprocess_stopped"
      [] message_type = "RequestConfiguration" -> "get_configuration_data"
      [] message_type = "GeometricStrategy" -> "setup_data_collection"
      [] message_type = "CollectionProposal" -> "collect_data"
      [] message_type = "ChooseLattice" -> "select_lattice"
      [] message_type = "RequestCentring" -> "process_centring_request"
      [] message_type = "PrepareForCentring" -> "prepare_for_centring"
      [] message_type = "ObtainPriorInformation" -> "obtain_prior_information"
      [] message_type = "WorkflowAborted" -> "workflow_aborted"
      [] message_type = "WorkflowCompleted" -> "workflow_completed"
      [] OTHER -> "workflow_failed"

\* self._processor_functions: message kind -> handler
processor_function(message_type) ==
    CASE message_type = "String" -> "echo_info_string"
      [] message_type = "SubprocessStarted" -> "echo_subprocess_started"
      [] message_type = "SubprocessStopped" -> "echo_subprocess_stopped"
      [] message_type = "RequestConfiguration" -> "get_configuration_data"
      [] message_type = "GeometricStrategy" -> "setup_data_collection"
      [] message_type = "CollectionProposal" -> "collect_data"
      [] message_type = "ChooseLattice" -> "select_lattice"
      [] message_type = "RequestCentring" -> "process_centring_request"
      [] message_type = "PrepareForCentring" -> "prepare_for_centring"
      [] message_type = "ObtainPriorInformation" -> "obtain_prior_information"
      [] message_type = "WorkflowAborted" -> "workflow_aborted"
      [] message_type = "WorkflowCompleted" -> "workflow_completed"
      [] message_type = "WorkflowFailed" -> "workflow_failed"
      [] OTHER -> None

\* RECENTRING_MODES.values()
RECENTRING_MODES == <<"sweep", "scan", "start", "none">>

-----------------------------------------------------------------------------
(* Values exchanged with the collaborators *)

NonePayload == [type |-> "None"]
NoneResponse == [type |-> "None"]
StopIterationResponse == [type |-> "StopIteration"]
NoMessage ==
    [kind |-> "None", payload |-> NonePayload, correlation_id |-> 0,
     result_list |-> None]

\* the result_list objects the connection hands over with a message
ResultLists == {"r1", "r2"}

Message(kind, payload, correlation_id, result_list) ==
    [kind |-> kind, payload |-> payload, correlation_id |-> correlation_id,
     result_list |-> result_list]

\* the fields of self a handler reads or writes, as one record
Self ==
    [ specific_state |-> specific_state,
      _queue_entry |-> _queue_entry,
      data_model |-> data_model,
      _workflow_queue |-> _workflow_queue,
      queue |-> queue,
      _data_collection_group |-> _data_collection_group,
      _server_subprocess_names |-> _server_subprocess_names,
      _return_parameters |-> _return_parameters,
      _use_fine_zoom |-> _use_fine_zoom,
      settings |-> settings ]

\* what a handler call produced: the object afterwards, the value returned
\* (or the exception raised) and the calls made on collaborators, in order
Outcome(self, response, raised, blocked, calls) ==
    [self |-> self, response |-> response, raised |-> raised,
     blocked |-> blocked, calls |-> calls]

Returns(self, response, calls) == Outcome(self, response, None, FALSE, calls)
Raises(self, exception, calls) ==
    Outcome(self, NoneResponse, exception, FALSE, calls)
\* the handler waits on self._return_parameters.get()
Blocks(self, calls) == Outcome(self, NoneResponse, None, TRUE, calls)

-----------------------------------------------------------------------------
(* State handling *)

\* a readiness test that lets every start through
is_ready_always(hw_state) == TRUE

\* HardwareObject.is_ready
is_ready(hw_state) == hw_state = "READY"

\* an update that never brings the state back to READY
update_state_never_ready(new_state, old_specific_state) ==
    << IF new_state = "READY" THEN "BUSY" ELSE new_state, old_specific_state >>

\* GphlWorkflow.update_state: sets the state and, for the four shared tags,
\* the specific state; yields the pair <<state, specific_state>>
update_state(new_state, old_specific_state) ==
    << new_state,
       IF new_state \in {"BUSY", "READY", "UNKNOWN", "FAULT"}
       THEN new_state ELSE old_specific_state >>

-----------------------------------------------------------------------------
(* Message handlers without collaborators *)

\* a terminal handler that sets the state but puts no sentinel
SetTerminalWithoutSentinel(self, tag) ==
    Outcome([self EXCEPT !.specific_state = tag], [type |-> "None"], "None",
            FALSE, <<>>)

\* self._workflow_queue.put_nowait(StopIteration) after the state is set;
\* on a torn-down session the reference is None and the call raises
SetTerminal(self, tag) ==
    LET s1 == [self EXCEPT !.specific_state = tag]
    IN  IF self._workflow_queue = None
        THEN Raises(s1, "AttributeError", <<>>)
        ELSE Returns([s1 EXCEPT !.queue = Append(@, StopIteration)],
                     NoneResponse, <<>>)

workflow_aborted(self, payload, correlation_id) == SetTerminal(self, "ABORTED")

workflow_completed(self, payload, correlation_id) ==
    SetTerminal(self, "COMPLETED")

workflow_failed(self, payload, correlation_id) == SetTerminal(self, "FAULT")

\* a call made on a collaborator (queue model, queue manager, logging):
\* target is a string, detail a record with a `type` field
Call(op, target, detail) == [op |-> op, target |-> target, detail |-> detail]

Text(text) == [type |-> "text", text |-> text]
Value(value) == [type |-> "value", value |-> value]
Rotation(rotation_id) == [type |-> "rotation", id_ |-> rotation_id]
TaskNode(type) == [type |-> type]

LogCall(prefix, text) == Call("logging.info", prefix, Text(text))

echo_info_string(self, payload, correlation_id) ==
    LET names == self._server_subprocess_names
        subprocess_name ==
            IF correlation_id \in DOMAIN names THEN names[correlation_id]
            ELSE None
    IN  Returns(self, NoneResponse, << LogCall(subprocess_name, payload.text) >>)

echo_subprocess_started(self, payload, correlation_id) ==
    LET names == self._server_subprocess_names
        name == payload.name
        added == [c \in DOMAIN names \cup {correlation_id} |->
                     IF c = correlation_id THEN name ELSE names[c]]
    IN  Returns([self EXCEPT !._server_subprocess_names =
                     IF correlation_id # 0 THEN added ELSE names],
                NoneResponse, << LogCall(name, "STARTING") >>)

\* a pop that lets the KeyError of an untracked id escape
echo_subprocess_stopped_keyerror(self, payload, correlation_id) ==
    LET names == self._server_subprocess_names
        popped == [c \in DOMAIN names \ {correlation_id} |-> names[c]]
    IN  IF correlation_id \in DOMAIN names
        THEN Returns([self EXCEPT !._server_subprocess_names = popped],
                     NoneResponse,
                     << LogCall(names[correlation_id], "FINISHED") >>)
        ELSE Raises(self, "KeyError", <<>>)

echo_subprocess_stopped(self, payload, correlation_id) ==
    LET names == self._server_subprocess_names
        known == correlation_id \in DOMAIN names
        name == IF known THEN names[correlation_id] ELSE "Unknown process"
        popped == [c \in DOMAIN names \ {correlation_id} |-> names[c]]
    IN  Returns([self EXCEPT !._server_subprocess_names = popped],
                NoneResponse, << LogCall(name, "FINISHED") >>)

get_configuration_data(self, payload, correlation_id) ==
    Returns(self, [type |-> "ConfigurationData"], <<>>)

prepare_for_centring(self, payload, correlation_id) ==
    Returns(self, [type |-> "ReadyForCentring"], <<>>)

obtain_prior_information(self, payload, correlation_id) ==
    IF self._queue_entry = None
    THEN Raises(self, "AttributeError", <<>>)
    ELSE Returns(self, [type |-> "PriorInformation"], <<>>)

-----------------------------------------------------------------------------
(* Sample centring *)

\* GphlWorkflow._add_to_queue -> queue_model.add_child(parent, child); the
\* queue model dereferences the parent, so a None parent raises
_add_to_queue(parent_model_obj, child_model_obj) ==
    Call("add_to_queue", parent_model_obj, child_model_obj)

\* enqueue_sample_centring: the calls it makes; in_queue chooses the parent
enqueue_sample_centring(self, rotation_id, in_queue) ==
    LET parent == IF in_queue THEN self._data_collection_group
                  ELSE "data_model"
    IN  IF self.data_model.automation_mode
        THEN << Call("addXrayCentring", parent,
                     [type |-> "XrayCentring", id_ |-> rotation_id]) >>
        ELSE << _add_to_queue(parent,
                     [type |-> "SampleCentring", id_ |-> rotation_id]) >>

\* GphlMessages.GoniostatTranslation(rotation, requestedRotationId, **axes)
GoniostatTranslation(rotation_id, requestedRotationId, origin) ==
    [rotation_id |-> rotation_id, requestedRotationId |-> requestedRotationId,
     origin |-> origin]

\* what get_centring_result() of a centring task yields
CentringResult(rotation_id, has_result) ==
    [type |-> "centring_result", id_ |-> rotation_id, result |-> has_result]

\* the calls of execute_sample_centring: a failure of execute_entry is
\* caught and signalled, then the centring result is read
centring_calls(rotation_id, has_result, execute_raises) ==
    << Call("execute_entry", "SampleCentring", Rotation(rotation_id)) >>
    \o (IF execute_raises
        THEN << Call("emit", "queue_execution_failed", TaskNode("None")) >>
        ELSE <<>>)
    \o << Call("get_centring_result", "SampleCentring",
                CentringResult(rotation_id, has_result)) >>

\* a centring that hands out a translation whether or not there is a result
execute_sample_centring_any_result(rotation_id, has_result, execute_raises) ==
    [ calls |-> centring_calls(rotation_id, has_result, execute_raises),
      raised |-> None,
      translation |-> GoniostatTranslation(rotation_id, None, "centring") ]

\* execute_sample_centring: has_result is whether the executed centring task
\* left a centring result, execute_raises whether its execution raised
execute_sample_centring(rotation_id, has_result, execute_raises) ==
    [ calls |-> centring_calls(rotation_id, has_result, execute_raises),
      raised |-> IF has_result THEN None ELSE "RuntimeError",
      translation |-> GoniostatTranslation(rotation_id, None, "centring") ]

\* collect_centring_snapshots takes snapshots only for a non-zero count
collect_centring_snapshots(self, rotation_id) ==
    IF self.data_model.snapshot_count # 0
    THEN << Call("_take_crystal_snapshot", "collect", Rotation(rotation_id)) >>
    ELSE <<>>

-----------------------------------------------------------------------------
(* GeometricStrategy: setup_data_collection *)

\* angles are in units of 0.1 degree
\* self.settings.get("angular_tolerance", 1.0)
DefaultAngularTolerance == 10
\* tol = 0.1 when no recentring parameters are loaded
CurrentPositionTolerance == 1

Abs(x) == IF x < 0 THEN 0 - x ELSE x
Max(x, y) == IF x < y THEN y ELSE x
Min(x, y) == IF x < y THEN x ELSE y
Reverse(seq) == [i \in 1..Len(seq) |-> seq[Len(seq) + 1 - i]]

\* all sweepSettings, in order, one per id
RECURSIVE OrderedSweepSettings(_, _)
OrderedSweepSettings(sweeps, sweepSettingIds) ==
    IF sweeps = <<>> THEN <<>>
    ELSE LET sweepSetting == Head(sweeps).goniostatSweepSetting
         IN  IF sweepSetting.id_ \in sweepSettingIds
             THEN OrderedSweepSettings(Tail(sweeps), sweepSettingIds)
             ELSE << sweepSetting >> \o
                  OrderedSweepSettings(Tail(sweeps),
                                       sweepSettingIds \cup {sweepSetting.id_})

\* the settings in plan order whatever the recentring mode
SweepSettingsInPlanOrder(sweeps, recentring_mode) ==
    OrderedSweepSettings(sweeps, {})

\* for recentring mode 'start' the settings are done in reverse order
SweepSettingsFor(sweeps, recentring_mode) ==
    LET sweepSettings == OrderedSweepSettings(sweeps, {})
    IN  IF recentring_mode = "start" THEN Reverse(sweepSettings)
        ELSE sweepSettings

\* The output of the recen program is a return code and the lines it
\* printed; a line is the sequence of its whitespace-separated tokens.
RecenOutput(returncode, lines) == [returncode |-> returncode, lines |-> lines]

RecenRun(rotation_id, output) ==
    [type |-> "rotation", id_ |-> rotation_id, output |-> output]

\* ss0 == "NORMAL termination"
IsTerminationLine(line) == line = << "NORMAL", "termination" >>

\* "X,Y,Z" in ss0
IsTranslationLine(line) == \E i \in 1..Len(line) : line[i] = "X,Y,Z"

\* the tokens float() converts, with their values in units of 0.1
IsFloat(token) == token \in {"0.5", "1.5"}

float(token) == IF token = "0.5" THEN 5 ELSE 15

\* ll0 = ss0.split()[-3:]; result[tag] = float(ll0[ii]) for the three
\* translation axis roles, in order
translation_values(line) ==
    LET ll0 == SubSeq(line, Max(1, Len(line) - 2), Len(line))
        failing == {ii \in 1..3 : ii > Len(ll0) \/ ~IsFloat(ll0[ii])}
        first == CHOOSE ii \in failing : \A jj \in failing : ii <= jj
    IN  IF failing = {}
        THEN [raised |-> None, result |-> [ii \in 1..3 |-> float(ll0[ii])]]
        ELSE [raised |-> IF first > Len(ll0) THEN "IndexError" ELSE "ValueError",
              result |-> <<>>]

\* 'for line in reversed(output.splitlines())': from the end, the first
\* termination line sets terminated_ok, and the first translation line met
\* after that is converted; without either the result stays empty
scan_recen_output(reversed_lines) ==
    LET terminated == {i \in 1..Len(reversed_lines) :
                          IsTerminationLine(reversed_lines[i])}
        translated == {i \in 1..Len(reversed_lines) :
                          /\ IsTranslationLine(reversed_lines[i])
                          /\ \E t \in terminated : t < i}
    IN  IF translated = {} THEN [raised |-> None, result |-> <<>>]
        ELSE translation_values(reversed_lines[
                 CHOOSE i \in translated : \A j \in translated : i <= j])

\* what calculate_recentring makes of an output: CalledProcessError is
\* caught and gives the empty result, any other output is scanned
parse_recen_output(output) ==
    IF output.returncode # 0
    THEN [raised |-> None, result |-> <<>>]
    ELSE scan_recen_output(Reverse(output.lines))

\* calculate_recentring(okp, **recen_parameters): the recen subprocess; an
\* empty dictionary when the program fails. ext.recen_output is the output
\* of the run and ext.recen what parse_recen_output makes of it
calculate_recentring(rotation_id, ext) ==
    [ calls |-> << Call("subprocess.check_output", "recen",
                        RecenRun(rotation_id, ext.recen_output)) >>,
      raised |-> ext.recen.raised,
      result |-> ext.recen.result,
      origin |-> IF ext.recen.result # <<>> THEN "recen" ELSE "recen_failed" ]

\* the running result of the centring part of setup_data_collection
Centring(translations, current_rotation_id, calls, centrings, raised) ==
    [ translations |-> translations,
      current_rotation_id |-> current_rotation_id,
      calls |-> calls, centrings |-> centrings, raised |-> raised ]

\* enqueue and execute one centring at sweepSetting; ext.no_result_at is the
\* rank of the centring task of this call that yields no result (0: none)
CentreAt(self, sweepSetting, with_snapshots, ext, acc) ==
    LET rank == acc.centrings + 1
        ex == execute_sample_centring(sweepSetting.id_, ext.no_result_at # rank,
                                      ext.execute_raises)
        calls == acc.calls \o enqueue_sample_centring(self, sweepSetting.id_, FALSE)
                 \o ex.calls
    IN  IF self._queue_entry = None
        THEN Centring(acc.translations, acc.current_rotation_id, acc.calls,
                      acc.centrings, "AttributeError")
        ELSE IF ex.raised # None
        THEN Centring(acc.translations, acc.current_rotation_id, calls, rank,
                      ex.raised)
        ELSE Centring(Append(acc.translations, ex.translation),
                      sweepSetting.id_,
                      calls \o (IF with_snapshots
                                THEN collect_centring_snapshots(self, sweepSetting.id_)
                                ELSE <<>>),
                      rank, None)

\* handle centring of the first orientation
FirstOrientation(self, sweepSetting, recentring_mode, ext) ==
    LET dm == self.data_model
        recen_parameters == self.settings.transcal_file
        start == Centring(<<>>, dm.current_rotation_id, <<>>, 0, None)
    IN  IF self.settings.recentre_before_start /\ ~dm.characterisation_done
        THEN CentreAt(self, sweepSetting, FALSE, ext, start)
        ELSE IF dm.characterisation_done \/ dm.strategy_type = "diffractcal"
        THEN
          LET maxdev == Max(Abs(sweepSetting.kappa - ext.current_kappa),
                            Abs(sweepSetting.kappa_phi - ext.current_phi))
              recen == calculate_recentring(sweepSetting.id_, ext)
              tol == IF recen_parameters THEN self.settings.angular_tolerance
                     ELSE CurrentPositionTolerance
              calls == IF recen_parameters THEN recen.calls ELSE <<>>
              translation ==
                  GoniostatTranslation(sweepSetting.id_, None,
                      IF recen_parameters THEN recen.origin ELSE "current")
              calculated == Centring(<<>>, dm.current_rotation_id, calls, 0, None)
          IN  IF recen_parameters /\ recen.raised # None
              THEN Centring(<<>>, dm.current_rotation_id, calls, 0, recen.raised)
              ELSE IF maxdev <= tol
              THEN Centring(<< translation >>, sweepSetting.id_, calls, 0, None)
              ELSE IF recentring_mode = "none"
              THEN IF recen_parameters
                   THEN Centring(<< translation >>, dm.current_rotation_id,
                                 calls, 0, None)
                   ELSE Centring(<<>>, dm.current_rotation_id, calls, 0,
                                 "RuntimeError")
              ELSE CentreAt(self, sweepSetting, recentring_mode = "start",
                            ext, calculated)
        ELSE \* characterisation at the current, pre-centred position
          Centring(<< GoniostatTranslation("newRotation", sweepSetting.id_,
                                           "current") >>,
                   "newRotation", <<>>, 0, None)

\* calculate or determine centring for the remaining sweeps
RECURSIVE RemainingOrientations(_, _, _, _, _)
RemainingOrientations(self, sweepSettings, recentring_mode, ext, acc) ==
    IF sweepSettings = <<>> \/ acc.raised # None THEN acc
    ELSE
      LET sweepSetting == Head(sweepSettings)
          recen_parameters == self.settings.transcal_file
          recen == calculate_recentring(sweepSetting.id_, ext)
          calculated ==
              IF recen_parameters
              THEN [acc EXCEPT !.calls = @ \o recen.calls] ELSE acc
          next ==
              IF recen_parameters /\ recen.raised # None
              THEN [calculated EXCEPT !.raised = recen.raised]
              ELSE IF recentring_mode = "start"
              THEN CentreAt(self, sweepSetting, TRUE, ext, calculated)
              ELSE IF recen_parameters
              THEN [calculated EXCEPT !.translations =
                       Append(@, GoniostatTranslation(sweepSetting.id_, None,
                                                      recen.origin))]
              ELSE [calculated EXCEPT !.translations =
                       Append(@, GoniostatTranslation(sweepSetting.id_, None,
                                                      "current"))]
      IN  RemainingOrientations(self, Tail(sweepSettings), recentring_mode,
                                ext, next)

\* the name of the task group that setup_data_collection opens
new_dcg_name(dm) ==
    IF dm.characterisation_done THEN "GPhL Data Collection"
    ELSE IF dm.strategy_type = "diffractcal" THEN "GPhL DiffractCal"
    ELSE "GPhL Characterisation"

\* the dose (about to be) consumed is assigned to the field of the current
\* phase: acquisition after characterisation or for diffractcal, else
\* characterisation
register_dose(dm, dose) ==
    IF dm.characterisation_done \/ dm.strategy_type = "diffractcal"
    THEN [dm EXCEPT !.acquisition_dose = dose]
    ELSE [dm EXCEPT !.characterisation_dose = dose]

\* setup_data_collection from 'From here on same for manual and automation':
\* open the task group, centre, set the goniostat translations
setup_centring(self, geometric_strategy, ext) ==
    LET dm == register_dose(self.data_model, ext.new_dose)
        s1 == [self EXCEPT !.data_model = dm,
                           !._data_collection_group = new_dcg_name(dm)]
        recentring_mode == dm.recentring_mode
        sweepSettings ==
            SweepSettingsFor(geometric_strategy.sweeps, recentring_mode)
    IN  IF sweepSettings = <<>> THEN Raises(s1, "IndexError", <<>>)
        ELSE
          LET first == FirstOrientation(s1, sweepSettings[1], recentring_mode,
                                        ext)
              all == RemainingOrientations(s1, Tail(sweepSettings),
                                           recentring_mode, ext, first)
              moved == [s1 EXCEPT !.data_model.current_rotation_id =
                                      all.current_rotation_id]
          IN  IF all.raised # None THEN Raises(moved, all.raised, all.calls)
              ELSE Returns(
                     [moved EXCEPT !.data_model.goniostat_translations =
                                       all.translations],
                     [type |-> "SampleCentred"],
                     Append(all.calls,
                            _add_to_queue("data_model",
                                          [type |-> "TaskGroup",
                                           name |-> s1._data_collection_group])))

\* the recentring modes query_collection_strategy offers to the user
use_modes(self, geometric_strategy) ==
    {"sweep"}
    \cup (IF Len(OrderedSweepSettings(geometric_strategy.sweeps, {})) > 1
          THEN {"start"} ELSE {})
    \cup (IF geometric_strategy.isInterleaved THEN {"scan"} ELSE {})
    \cup (IF self.settings.transcal_file
             /\ (self.data_model.characterisation_done
                 \/ self.data_model.strategy_type = "diffractcal")
          THEN {"none"} ELSE {})

\* query_collection_strategy up to self._return_parameters.get()
query_collection_strategy(self, geometric_strategy) ==
    Blocks([self EXCEPT !._return_parameters = "AsyncResult"],
           << Call("dispatcher.send", "gphlJsonParametersNeeded",
                   Text("collection strategy")) >>)

\* whether the run is past characterisation or a diffractometer calibration
not_characterisation(dm) ==
    dm.characterisation_done \/ dm.strategy_type = "diffractcal"

\* exposure_time * transmission / 100, then max(exposure_limits[1], ...)
\* if the detector has an upper exposure limit
compensated_exposure(exposure_time, transmission, max_exposure) ==
    IF max_exposure # 0
    THEN Max(max_exposure, (exposure_time * transmission) \div 100)
    ELSE (exposure_time * transmission) \div 100

\* setup_data_collection, 'set gphl_workflow_model.transmission': when the
\* automation parameters give no transmission it is calculated from the
\* dose and limited to 100
initial_transmission(dm, ext) ==
    LET given == IF dm.automation_mode THEN ext.auto_transmission
                 ELSE NonePayload
        transmission == ext.calculated_transmission
    IN  IF given.type # "None" THEN dm
        ELSE IF transmission > 100
        THEN [dm EXCEPT !.transmission = 100,
                        !.exposure_time =
                            IF not_characterisation(dm)
                            THEN compensated_exposure(@, transmission,
                                                      ext.max_exposure)
                            ELSE @]
        ELSE [dm EXCEPT !.transmission = transmission]

\* the calls of that part: calculate_transmission of the data model and
\* get_exposure_time_limits of the detector
transmission_calls(dm, ext) ==
    IF dm.automation_mode /\ ext.auto_transmission.type # "None" THEN <<>>
    ELSE << Call("calculate_transmission", "data_model",
                 Value(ext.calculated_transmission)) >>
         \o (IF ext.calculated_transmission > 100 /\ not_characterisation(dm)
             THEN << Call("get_exposure_time_limits", "detector",
                          Value(ext.max_exposure)) >>
             ELSE <<>>)

\* setup_data_collection: automation mode takes its parameters from the data
\* model; otherwise the user is queried and the handler waits
setup_data_collection(self, payload, correlation_id, ext) ==
    LET s0 == [self EXCEPT !.data_model = initial_transmission(@, ext)]
        done == IF self.data_model.automation_mode
                THEN setup_centring(s0, payload, ext)
                ELSE query_collection_strategy(s0, payload)
    IN  IF self._queue_entry = None THEN Raises(self, "AttributeError", <<>>)
        ELSE [done EXCEPT !.calls = transmission_calls(self.data_model, ext) \o @]

\* the centring is set up whatever the query returned
setup_data_collection_resume_unstopped(self, payload, result, ext) ==
    LET s1 == [self EXCEPT !._return_parameters = None]
    IN  IF result.type = "exception" THEN Raises(s1, "RuntimeError", <<>>)
        ELSE setup_centring(s1, payload, ext)

\* setup_data_collection once self._return_parameters.get() has returned
\* `result` (or raised): the finally clause clears the reference
setup_data_collection_resume(self, payload, result, ext) ==
    LET s1 == [self EXCEPT !._return_parameters = None]
    IN  IF result.type = "exception" THEN Raises(s1, "RuntimeError", <<>>)
        ELSE IF result.type = "StopIteration"
        THEN Returns(s1, StopIterationResponse, <<>>)
        ELSE LET dm == IF result.std_dose_rate
                       THEN register_dose(s1.data_model, result.use_dose)
                       ELSE s1.data_model
             IN  setup_centring(
                   [s1 EXCEPT !.data_model =
                       [dm EXCEPT !.exposure_time = result.exposure,
                                  !.transmission = result.transmission,
                                  !.snapshot_count = result.snapshot_count,
                                  !.recentring_mode = result.recentring_mode]],
                   payload, ext)

-----------------------------------------------------------------------------
(* CollectionProposal: collect_data *)

\* the compression of an unrolled multi-trigger sweep applies
multitrigger(self, collection_proposal) ==
    /\ collection_proposal.sweepRepeat # 0
    /\ collection_proposal.sweepOffset # 0
    /\ self.settings.use_multitrigger

\* the running state of the loop over the scans
Collecting(sweeps, last_orientation, snapshotted, rotation_id, calls, raised) ==
    [ sweeps |-> sweeps, last_orientation |-> last_orientation,
      snapshotted_rotation_ids |-> snapshotted,
      current_rotation_id |-> rotation_id,
      calls |-> calls, raised |-> raised ]

\* snapshots once per rotation id of the plan, whatever came in between
take_snapshots_once_per_id(self, acc, rotation_id) ==
    IF rotation_id \in acc.snapshotted_rotation_ids
    THEN 0 ELSE self.data_model.snapshot_count

\* snapshots for every scan
take_snapshots_every_scan(self, acc, rotation_id) ==
    self.data_model.snapshot_count

\* acq_parameters.take_snapshots: none for a rotation id already
\* snapshotted and still current
take_snapshots(self, acc, rotation_id) ==
    IF rotation_id \in acc.snapshotted_rotation_ids
       /\ rotation_id = acc.current_rotation_id
    THEN 0 ELSE self.data_model.snapshot_count

\* one pass of 'for scan in scans'
collect_scan(self, collection_proposal, scan, is_last, acc) ==
    LET sweep == scan.sweep
        goniostatRotation == sweep.goniostatSweepSetting
        rotation_id == goniostatRotation.id_
        orientation == << goniostatRotation.kappa, goniostatRotation.kappa_phi >>
        recentring_mode == self.data_model.recentring_mode
        maxdev ==
            IF acc.last_orientation # <<>>
            THEN Max(Abs(orientation[1] - acc.last_orientation[1]),
                     Abs(orientation[2] - acc.last_orientation[2]))
            ELSE 0 - 1
        recentre ==
            /\ acc.sweeps # {}
            /\ \/ recentring_mode = "scan"
               \/ /\ recentring_mode = "sweep"
                  /\ ~ \/ rotation_id = acc.current_rotation_id
                       \/ (0 <= maxdev /\ maxdev < self.settings.angular_tolerance)
        multi == multitrigger(self, collection_proposal)
        scan_count == Len(collection_proposal.scans)
        data_collection ==
            [ type |-> "DataCollection",
              rotation_id |-> rotation_id,
              first_image |-> scan.imageStartNum,
              num_images |-> IF multi THEN scan.numImages * scan_count
                             ELSE scan.numImages,
              num_triggers |-> IF multi THEN scan_count ELSE 0,
              centred_position |-> ~recentre,
              take_snapshots |-> take_snapshots(self, acc, rotation_id),
              in_queue |-> ~is_last ]
        centring == IF recentre
                    THEN enqueue_sample_centring(self, rotation_id, TRUE)
                    ELSE <<>>
        parent == self._data_collection_group
        looped == Collecting(acc.sweeps \cup {sweep.id_}, orientation,
                     acc.snapshotted_rotation_ids \cup {rotation_id},
                     rotation_id,
                     acc.calls \o centring
                         \o << _add_to_queue(parent, data_collection) >>,
                     IF parent = None THEN "AttributeError" ELSE None)
    IN  IF recentre /\ parent = None
        THEN [acc EXCEPT !.calls = @ \o centring, !.raised = "AttributeError"]
        ELSE looped

RECURSIVE collect_scans(_, _, _, _)
collect_scans(self, collection_proposal, scans, acc) ==
    IF scans = <<>> \/ acc.raised # None THEN acc
    ELSE collect_scans(self, collection_proposal, Tail(scans),
             collect_scan(self, collection_proposal, Head(scans),
                          Len(scans) = 1, acc))

\* the data of a prior processing step are never taken into account
no_init_spot_dir(gphl_workflow_model) == FALSE

\* 'if gphl_workflow_model.init_spot_dir': collection and processing have
\* already been run
has_init_spot_dir(gphl_workflow_model) == gphl_workflow_model.init_spot_dir

\* collect_data; ext tells how the execution of the task group ends
collect_data(self, payload, correlation_id, ext) ==
    LET collection_proposal == payload
        dm == self.data_model
        scan_count == Len(collection_proposal.scans)
        scans == IF multitrigger(self, collection_proposal)
                 THEN SubSeq(collection_proposal.scans, 1, 1)
                 ELSE collection_proposal.scans
        done == collect_scans(self, collection_proposal, scans,
                    Collecting({}, <<>>, {}, dm.current_rotation_id, <<>>, None))
        s1 == [self EXCEPT !.data_model.current_rotation_id =
                               done.current_rotation_id]
        group == self._data_collection_group
        execute ==
            << Call("execute_entry", group, TaskNode("TaskGroup")) >>
            \o (IF ext.execute_raises \/ group = None
                THEN << Call("emit", "queue_execution_failed", TaskNode("None")) >>
                ELSE <<>>)
    IN  IF self._queue_entry = None THEN Raises(self, "AttributeError", <<>>)
        ELSE IF has_init_spot_dir(dm)
        THEN Returns(self, [type |-> "CollectionDone", status |-> 0], <<>>)
        ELSE IF multitrigger(self, collection_proposal)
                /\ collection_proposal.sweepRepeat # scan_count
        THEN Raises(self, "ValueError", <<>>)
        ELSE IF done.raised # None THEN Raises(s1, done.raised, done.calls)
        ELSE IF group = None
        THEN \* no queue entry for the model None: its status cannot be read
             Raises(s1, "AttributeError", done.calls \o execute)
        ELSE Returns([s1 EXCEPT !._data_collection_group = None],
                     [type |-> "CollectionDone",
                      status |-> IF ext.entry_failed THEN 1 ELSE 0],
                     done.calls \o execute)

-----------------------------------------------------------------------------
(* RequestCentring: process_centring_request *)

\* DONE only at the setting whose number is the total number of rotations
returnStatusAtTotal(request_centring) ==
    IF request_centring.currentSettingNo = request_centring.totalRotations
    THEN "DONE" ELSE "NEXT"

\* returnStatus: DONE from the last rotation setting on
returnStatus(request_centring) ==
    IF request_centring.currentSettingNo >= request_centring.totalRotations
    THEN "DONE" ELSE "NEXT"

\* the last part of process_centring_request: centre and report
request_centring_done(self, request_centring, ext, calls) ==
    LET goniostatRotation == request_centring.goniostatRotation
        ex == execute_sample_centring(goniostatRotation.id_,
                                      ext.no_result_at # 1, ext.execute_raises)
        all == calls \o enqueue_sample_centring(self, goniostatRotation.id_, FALSE)
               \o ex.calls
    IN  IF self._queue_entry = None THEN Raises(self, "AttributeError", calls)
        ELSE IF ex.raised # None THEN Raises(self, ex.raised, all)
        ELSE Returns(self,
                     [type |-> "CentringDone",
                      status |-> returnStatus(request_centring),
                      goniostatTranslation |-> ex.translation],
                     all)

\* process_centring_request up to the centring, or up to the wait for the
\* user when fine zoom has to be asked for
process_centring_request(self, payload, correlation_id, ext) ==
    LET request_centring == payload
        goniostatRotation == request_centring.goniostatRotation
        opened == self._data_collection_group = None
        s1 == IF opened
              THEN [self EXCEPT !._data_collection_group =
                                    "GPhL Translational calibration"]
              ELSE self
        c1 == IF opened
              THEN << _add_to_queue("data_model",
                          [type |-> "TaskGroup",
                           name |-> "GPhL Translational calibration"]) >>
              ELSE <<>>
        zooming == /\ request_centring.currentSettingNo >= 2
                   /\ ~self._use_fine_zoom
                   /\ goniostatRotation.translation
        s2 == [s1 EXCEPT !._use_fine_zoom =
                  IF request_centring.currentSettingNo < 2 THEN FALSE
                  ELSE IF zooming THEN TRUE ELSE @]
    IN  IF opened /\ self._queue_entry = None
        THEN Raises(self, "AttributeError", <<>>)
        ELSE IF zooming /\ self.settings.zoom_motor
        THEN request_centring_done(s2, request_centring, ext,
                 Append(c1, Call("moveToPosition", "zoom", TaskNode("None"))))
        ELSE IF zooming
        THEN Blocks([s2 EXCEPT !._return_parameters = "AsyncResult"],
                    Append(c1, Call("dispatcher.send", "gphlParametersNeeded",
                                    Text("zoom"))))
        ELSE request_centring_done(s2, request_centring, ext, c1)

\* process_centring_request once self._return_parameters.get() has returned
\* `result` (or raised: the reference is then not cleared)
process_centring_request_resume(self, payload, result, ext) ==
    LET s1 == [self EXCEPT !._return_parameters = None]
    IN  IF result.type = "exception" THEN Raises(self, "RuntimeError", <<>>)
        ELSE IF result.type = "StopIteration"
        THEN Returns(s1, StopIterationResponse, <<>>)
        ELSE request_centring_done(s1, payload, ext, <<>>)

-----------------------------------------------------------------------------
(* ChooseLattice: parse_indexing_solution and select_lattice *)

\* a Bravais lattice tag is the pair <<crystal family letter, centring>>;
\* an unset crystalFamilyChar is ""

\* the greatest index of seq whose element is in the set wanted
LastIndexIn(seq, wanted) ==
    LET hits == {i \in 1..Len(seq) : seq[i] \in wanted}
    IN  IF hits = {} THEN 0 ELSE CHOOSE i \in hits : \A j \in hits : i >= j

\* the least index of seq whose element is in the set wanted, 0 when none
FirstIndexIn(seq, wanted) ==
    LET hits == {i \in 1..Len(seq) : seq[i] \in wanted}
    IN  IF hits = {} THEN 0 ELSE CHOOSE i \in hits : \A j \in hits : i <= j

\* the values of an OrderedDict filled in the order of seq, keyed by the
\* formatted line of each solution
RECURSIVE OrderedDictValues(_, _)
OrderedDictValues(seq, keys) ==
    IF seq = <<>> THEN <<>>
    ELSE IF Head(seq) \in keys THEN OrderedDictValues(Tail(seq), keys)
    ELSE << Head(seq) >> \o OrderedDictValues(Tail(seq), keys \cup {Head(seq)})

Consistent(solutions) == SelectSeq(solutions, LAMBDA sol : sol.isConsistent)

\* parse_indexing_solution: select_row is the Python index into the
\* consistent solutions (-1 stands for None)
parse_indexing_solution(choose_lattice) ==
    LET solutions == choose_lattice.indexingSolutions
        consistent_solutions == Consistent(solutions)
        soldict == OrderedDictValues(solutions, {})
        n == Len(consistent_solutions)
        lattices == choose_lattice.lattices
        by_lattice ==
            IF lattices # <<>>
            THEN FirstIndexIn(consistent_solutions,
                     {sol \in {consistent_solutions[i] : i \in 1..n} :
                          \E k \in 1..Len(lattices) :
                              sol.bravaisLattice = lattices[k]})
            ELSE 0
        aset == {lattices[k][1] : k \in 1..Len(lattices)}
        crystal_family_char ==
            IF lattices # <<>> /\ choose_lattice.crystalFamilyChar = ""
               /\ Cardinality(aset) = 1
            THEN CHOOSE c \in aset : TRUE
            ELSE choose_lattice.crystalFamilyChar
        by_family ==
            IF crystal_family_char # ""
            THEN FirstIndexIn(consistent_solutions,
                     {sol \in {consistent_solutions[i] : i \in 1..n} :
                          sol.bravaisLattice[1] = crystal_family_char})
            ELSE 0
        by_solutions ==
            FirstIndexIn(consistent_solutions,
                {sol \in {consistent_solutions[i] : i \in 1..n} :
                     sol.bravaisLattice = consistent_solutions[n].bravaisLattice})
        row == IF by_lattice # 0 THEN by_lattice
               ELSE IF by_family # 0 THEN by_family
               ELSE by_solutions
    IN  IF choose_lattice.indexingFormat # "IDXREF"
        THEN [raised |-> "RuntimeError", soldict |-> <<>>, select_row |-> 0 - 1]
        ELSE IF by_lattice = 0 /\ by_family = 0 /\ n = 0
        THEN [raised |-> "IndexError", soldict |-> soldict, select_row |-> 0 - 1]
        ELSE [raised |-> None, soldict |-> soldict, select_row |-> row - 1]

\* query_pre_strategy_params up to self._return_parameters.get()
query_pre_strategy_params(self, choose_lattice) ==
    LET parsed == parse_indexing_solution(choose_lattice)
    IN  IF choose_lattice.type = "ChooseLattice" /\ parsed.raised # None
        THEN Raises(self, parsed.raised, <<>>)
        ELSE Blocks([self EXCEPT !._return_parameters = "AsyncResult"],
                    << Call("dispatcher.send", "gphlJsonParametersNeeded",
                            Text("pre-strategy")) >>)

\* select_lattice: in automation mode the row chosen by
\* parse_indexing_solution indexes the values of the solution table
select_lattice(self, payload, correlation_id, ext) ==
    LET choose_lattice == payload
        s1 == [self EXCEPT !.data_model.characterisation_done = TRUE]
        parsed == parse_indexing_solution(choose_lattice)
    IN  IF self._queue_entry = None THEN Raises(self, "AttributeError", <<>>)
        ELSE IF ~self.data_model.automation_mode
        THEN query_pre_strategy_params(s1, choose_lattice)
        ELSE IF parsed.raised # None THEN Raises(s1, parsed.raised, <<>>)
        ELSE IF ~ext.values_is_list \/ parsed.select_row + 1 > Len(parsed.soldict)
        THEN \* values() is a view that cannot be indexed, or the row is
             \* beyond the table
             Raises(s1, IF ext.values_is_list THEN "IndexError" ELSE "TypeError",
                    <<>>)
        ELSE IF ~self.data_model.aimed_resolution
        THEN Raises(s1, "ValueError", <<>>)
        ELSE Returns(s1,
                     [type |-> "SelectedLattice",
                      indexingSolution |-> parsed.soldict[parsed.select_row + 1]],
                     <<>>)

\* select_lattice once the user has answered: result.indexing_solution is
\* the row picked in the table (0: none)
select_lattice_resume(self, payload, result, ext) ==
    LET s1 == [self EXCEPT !._return_parameters = None]
        soldict == parse_indexing_solution(payload).soldict
    IN  IF result.type = "exception" THEN Raises(s1, "RuntimeError", <<>>)
        ELSE IF result.type = "StopIteration" THEN Raises(s1, "TypeError", <<>>)
        ELSE IF result.indexing_solution = 0 THEN Raises(s1, "KeyError", <<>>)
        ELSE Returns(s1,
                     [type |-> "SelectedLattice",
                      indexingSolution |-> soldict[result.indexing_solution]],
                     <<>>)

-----------------------------------------------------------------------------
(* The dispatch table *)

\* func(payload, correlation_id) for message m; ext holds what the
\* collaborators answer during the call; calling None raises TypeError
CallHandler(self, func, m, ext) ==
    CASE func = "echo_info_string" ->
            echo_info_string(self, m.payload, m.correlation_id)
      [] func = "echo_subprocess_started" ->
            echo_subprocess_started(self, m.payload, m.correlation_id)
      [] func = "echo_subprocess_stopped" ->
            echo_subprocess_stopped(self, m.payload, m.correlation_id)
      [] func = "get_configuration_data" ->
            get_configuration_data(self, m.payload, m.correlation_id)
      [] func = "setup_data_collection" ->
            setup_data_collection(self, m.payload, m.correlation_id, ext)
      [] func = "collect_data" ->
            collect_data(self, m.payload, m.correlation_id, ext)
      [] func = "select_lattice" ->
            select_lattice(self, m.payload, m.correlation_id, ext)
      [] func = "process_centring_request" ->
            process_centring_request(self, m.payload, m.correlation_id, ext)
      [] func = "prepare_for_centring" ->
            prepare_for_centring(self, m.payload, m.correlation_id)
      [] func = "obtain_prior_information" ->
            obtain_prior_information(self, m.payload, m.correlation_id)
      [] func = "workflow_aborted" ->
            workflow_aborted(self, m.payload, m.correlation_id)
      [] func = "workflow_completed" ->
            workflow_completed(self, m.payload, m.correlation_id)
      [] func = "workflow_failed" ->
            workflow_failed(self, m.payload, m.correlation_id)
      [] OTHER -> Raises(self, "TypeError", <<>>)

\* the rest of a handler that waited for parameters
ResumeHandler(self, func, m, result, ext) ==
    CASE func = "setup_data_collection" ->
            setup_data_collection_resume(self, m.payload, result, ext)
      [] func = "select_lattice" ->
            select_lattice_resume(self, m.payload, result, ext)
      [] func = "process_centring_request" ->
            process_centring_request_resume(self, m.payload, result, ext)

-----------------------------------------------------------------------------
(* The environment: configuration, data models, the engine's messages *)

\* goniostat sweep settings: an id and the fixed kappa / kappa_phi angles
SweepSetting(id_, kappa, kappa_phi) ==
    [id_ |-> id_, kappa |-> kappa, kappa_phi |-> kappa_phi]

SweepSettings ==
    { SweepSetting("rot1", 0, 0), SweepSetting("rot2", 0, 5),
      SweepSetting("rot3", 50, 0) }

Sweep(id_, sweepSetting) == [id_ |-> id_, goniostatSweepSetting |-> sweepSetting]

\* the sweeps of a plan: the i-th sweep is its own Sweep object
SweepsOf(settings_seq) ==
    [i \in 1..Len(settings_seq) |-> Sweep(i, settings_seq[i])]

GeometricStrategy(settings_seq, isInterleaved) ==
    [type |-> "GeometricStrategy", sweeps |-> SweepsOf(settings_seq),
     isInterleaved |-> isInterleaved]

SeqsUpTo(S, n) == UNION {[1..k -> S] : k \in 1..n}

Scan(sweep, imageStartNum, numImages) ==
    [sweep |-> sweep, imageStartNum |-> imageStartNum, numImages |-> numImages]

CollectionProposal(scans, sweepRepeat, sweepOffset) ==
    [type |-> "CollectionProposal", scans |-> scans,
     sweepRepeat |-> sweepRepeat, sweepOffset |-> sweepOffset]

IndexingSolution(isConsistent, latticeCharacter, bravaisLattice) ==
    [isConsistent |-> isConsistent, latticeCharacter |-> latticeCharacter,
     bravaisLattice |-> bravaisLattice]

ChooseLattice(indexingSolutions, lattices, crystalFamilyChar) ==
    [type |-> "ChooseLattice", indexingFormat |-> "IDXREF",
     indexingSolutions |-> indexingSolutions, lattices |-> lattices,
     crystalFamilyChar |-> crystalFamilyChar]

RequestCentring(currentSettingNo, totalRotations, rotation_id, translation) ==
    [type |-> "RequestCentring", currentSettingNo |-> currentSettingNo,
     totalRotations |-> totalRotations,
     goniostatRotation |-> [id_ |-> rotation_id, translation |-> translation]]

\* the workflow model object of a queue entry, as pre_execute receives it
DataModel(automation_mode, done, init_spot_dir, strategy_type, mode) ==
    [ automation_mode |-> automation_mode,
      characterisation_done |-> done,
      init_spot_dir |-> init_spot_dir,
      strategy_type |-> strategy_type,
      recentring_mode |-> mode,
      aimed_resolution |-> TRUE,
      characterisation_dose |-> 0,
      acquisition_dose |-> 0,
      snapshot_count |-> 2,
      current_rotation_id |-> None,
      goniostat_translations |-> <<>>,
      transmission |-> 100,
      exposure_time |-> 10 ]

NoDataModel == DataModel(FALSE, FALSE, FALSE, "acquisition", "sweep")

Settings(recentre_before_start, transcal_file, use_multitrigger, zoom_motor) ==
    [ recentre_before_start |-> recentre_before_start,
      transcal_file |-> transcal_file,
      angular_tolerance |-> DefaultAngularTolerance,
      use_multitrigger |-> use_multitrigger,
      zoom_motor |-> zoom_motor ]

\* recen printed a translation and terminated normally
RecenSucceeded ==
    RecenOutput(0, << << "X,Y,Z", "0.5", "1.5", "0.5" >>,
                      << "NORMAL", "termination" >> >>)

\* recen ended with a non-zero return code
RecenFailed == RecenOutput(1, <<>>)

\* the lines recen may print: the termination line, a translation line
\* with three values, with four, with two, with a value that is no number,
\* and a line of other text
RecenLines ==
    { << "NORMAL", "termination" >>,
      << "X,Y,Z", "0.5", "1.5", "0.5" >>,
      << "New", "X,Y,Z", "1.5", "0.5", "1.5", "0.5" >>,
      << "X,Y,Z", "0.5", "1.5" >>,
      << "X,Y,Z", "0.5", "abc", "1.5" >>,
      << "recen", "1.5" >> }

\* what subprocess.check_output yields: any output of up to MaxLines lines
\* with return code 0, or CalledProcessError for another return code
RecenOutputs ==
    { RecenOutput(0, lines) :
          lines \in {<<>>} \cup UNION {[1..k -> RecenLines] : k \in 1..MaxLines} }
    \cup { RecenFailed, [RecenSucceeded EXCEPT !.returncode = 1] }

\* what the collaborators answer during one handler call
\* the answers ext with output as what the recen program printed
WithRecenOutput(ext, output) ==
    [ext EXCEPT !.recen_output = output, !.recen = parse_recen_output(output)]

External(no_result_at, recen_ok, current_kappa, execute_raises, entry_failed) ==
    WithRecenOutput(
        [ no_result_at |-> no_result_at,
          recen_output |-> None, recen |-> None,
          auto_transmission |-> NonePayload, calculated_transmission |-> 50,
          max_exposure |-> 0,
          current_kappa |-> current_kappa, current_phi |-> 0,
          execute_raises |-> execute_raises, entry_failed |-> entry_failed,
          new_dose |-> 1, values_is_list |-> TRUE ],
        IF recen_ok THEN RecenSucceeded ELSE RecenFailed)

NoExternal == External(0, TRUE, 0, FALSE, FALSE)

Externals(profile, kind) ==
    CASE profile = "plan" /\ kind = "GeometricStrategy" ->
            { External(n, r, k, FALSE, FALSE) :
                  n \in 0..1, r \in BOOLEAN, k \in {0, 50} }
      [] profile = "dose" /\ kind = "GeometricStrategy" ->
            { [NoExternal EXCEPT !.new_dose = d] : d \in 1..2 }
      [] profile = "collect" /\ kind = "CollectionProposal" ->
            { External(0, TRUE, 0, FALSE, f) : f \in BOOLEAN }
      [] profile = "lattice" /\ kind = "ChooseLattice" ->
            { [NoExternal EXCEPT !.values_is_list = b] : b \in BOOLEAN }
      [] profile = "centring" /\ kind = "RequestCentring" ->
            { External(n, TRUE, 0, FALSE, FALSE) : n \in 0..1 }
      [] profile = "noresult" /\ kind = "GeometricStrategy" ->
            { External(n, TRUE, 0, e, FALSE) : n \in 0..2, e \in BOOLEAN }
      [] profile = "noresult" /\ kind = "RequestCentring" ->
            { External(n, TRUE, 0, e, FALSE) : n \in 0..1, e \in BOOLEAN }
      [] profile = "transmission" /\ kind = "GeometricStrategy" ->
            { [NoExternal EXCEPT !.auto_transmission = g,
                                 !.calculated_transmission = t,
                                 !.max_exposure = x] :
                  g \in {NonePayload, Value(80)}, t \in {50, 100, 150, 400},
                  x \in {0, 20} }
      [] profile = "recen" /\ kind = "GeometricStrategy" ->
            { WithRecenOutput(NoExternal, o) : o \in RecenOutputs }
      [] profile = "dispatch" /\ kind = "RequestCentring" ->
            { External(n, TRUE, 0, FALSE, FALSE) : n \in 0..1 }
      [] profile = "dispatch" /\ kind = "CollectionProposal" ->
            { External(0, TRUE, 0, FALSE, FALSE),
              External(0, TRUE, 0, TRUE, FALSE),
              External(0, TRUE, 0, TRUE, TRUE),
              External(0, TRUE, 0, FALSE, TRUE) }
      [] OTHER -> { NoExternal }

\* the configurations each engine profile is checked with
SettingsOf(profile) ==
    CASE profile = "dispatch" -> { Settings(FALSE, TRUE, FALSE, FALSE) }
      [] profile = "plan" ->
            { Settings(r, t, FALSE, TRUE) : r \in BOOLEAN, t \in BOOLEAN }
      [] profile = "dose" -> { Settings(FALSE, TRUE, FALSE, TRUE) }
      [] profile = "collect" ->
            { Settings(FALSE, TRUE, u, TRUE) : u \in BOOLEAN }
      [] profile = "lattice" -> { Settings(FALSE, TRUE, FALSE, TRUE) }
      [] profile = "centring" ->
            { Settings(FALSE, TRUE, FALSE, z) : z \in BOOLEAN }
      [] profile = "recen" -> { Settings(FALSE, TRUE, FALSE, TRUE) }
      [] profile = "noresult" ->
            { Settings(r, TRUE, FALSE, TRUE) : r \in BOOLEAN }
      [] profile = "utility" -> { Settings(FALSE, TRUE, FALSE, TRUE) }
      [] profile = "transmission" -> { Settings(FALSE, TRUE, FALSE, TRUE) }

DataModels(profile) ==
    CASE profile = "dispatch" ->
            { DataModel(a, FALSE, i, "acquisition", "sweep") :
                  a \in BOOLEAN, i \in BOOLEAN }
      [] profile = "plan" ->
            { DataModel(TRUE, c, FALSE, t, m) :
                  c \in BOOLEAN, t \in {"acquisition", "diffractcal"},
                  m \in {RECENTRING_MODES[i] : i \in 1..Len(RECENTRING_MODES)} }
            \cup { DataModel(FALSE, c, FALSE, t, "sweep") :
                       c \in BOOLEAN, t \in {"acquisition", "diffractcal"} }
      [] profile = "dose" ->
            { DataModel(a, FALSE, FALSE, t, "sweep") :
                  a \in BOOLEAN, t \in {"acquisition", "diffractcal"} }
      [] profile = "collect" ->
            { DataModel(TRUE, FALSE, FALSE, "acquisition", m) :
                  m \in {RECENTRING_MODES[i] : i \in 1..Len(RECENTRING_MODES)} }
            \cup { DataModel(FALSE, FALSE, FALSE, "acquisition", "sweep") }
      [] profile = "lattice" ->
            { DataModel(a, FALSE, FALSE, "acquisition", "sweep") : a \in BOOLEAN }
      [] profile = "centring" ->
            { DataModel(a, FALSE, FALSE, "transcal", "sweep") : a \in BOOLEAN }
      [] profile = "recen" ->
            { DataModel(TRUE, TRUE, FALSE, "acquisition", m) :
                  m \in {"sweep", "none"} }
            \cup { DataModel(FALSE, TRUE, FALSE, "acquisition", "sweep") }
      [] profile = "transmission" ->
            { DataModel(a, c, FALSE, t, "sweep") :
                  a \in BOOLEAN, c \in BOOLEAN,
                  t \in {"acquisition", "diffractcal"} }
      [] profile = "noresult" ->
            { DataModel(TRUE, c, FALSE, "acquisition", m) :
                  c \in BOOLEAN, m \in {"sweep", "start"} }
            \cup { DataModel(FALSE, c, FALSE, "acquisition", "sweep") :
                       c \in BOOLEAN }

OneSweep == << SweepSetting("rot1", 0, 0) >>

Dispatched ==
    { Message("String", Text("info"), 1, None),
      Message("SubprocessStarted",
              [type |-> "SubprocessStarted", name |-> "recen"], 1, None),
      Message("SubprocessStarted",
              [type |-> "SubprocessStarted", name |-> "simcal"], 1, None),
      Message("SubprocessStarted",
              [type |-> "SubprocessStarted", name |-> "recen"], 0, None),
      Message("SubprocessStopped", [type |-> "SubprocessStopped"], 1, None),
      Message("SubprocessStopped", [type |-> "SubprocessStopped"], 2, None),
      Message("RequestConfiguration", NonePayload, 1, None),
      Message("RequestConfiguration", NonePayload, 1, "r1"),
      Message("PrepareForCentring", NonePayload, 2, "r1"),
      Message("ObtainPriorInformation", NonePayload, 1, "r2"),
      Message("GeometricStrategy", GeometricStrategy(OneSweep, FALSE), 1, "r1"),
      Message("CollectionProposal",
              CollectionProposal(<< Scan(Sweep(1, OneSweep[1]), 1, 10) >>, 0, 0),
              2, "r2"),
      Message("ChooseLattice",
              ChooseLattice(<< IndexingSolution(TRUE, 11, <<"t", "P">>),
                               IndexingSolution(TRUE, 14, <<"m", "C">>) >>,
                            << <<"m", "C">> >>, ""),
              1, "r1"),
      Message("RequestCentring", RequestCentring(2, 2, "rot1", TRUE), 1, "r2"),
      Message("WorkflowAborted", NonePayload, 0, None),
      Message("WorkflowCompleted", NonePayload, 0, None),
      Message("WorkflowFailed", NonePayload, 0, None),
      Message("BeamlineAbort", NonePayload, 1, "r1") }

Planned ==
    { Message("GeometricStrategy", GeometricStrategy(seq, i), 1, "r1") :
          seq \in SeqsUpTo(SweepSettings, MaxSweeps), i \in {FALSE} }

\* the sweep settings of the scans of a proposal: rot2 is within the
\* angular tolerance of rot1, rot4 exactly at it, rot3 far outside
ScanSettings ==
    SweepSettings \cup { SweepSetting("rot4", 0, DefaultAngularTolerance) }

ScanOf(sweepSetting) == Scan(Sweep(sweepSetting.id_, sweepSetting), 1, 10)

\* proposals of up to MaxScans unrolled scans, with the repeat count and
\* the sweep offset their strategy declares
Proposed ==
    { Message("CollectionProposal",
              CollectionProposal([i \in 1..Len(seq) |-> ScanOf(seq[i])], r, o),
              2, "r2") :
          seq \in SeqsUpTo(ScanSettings, MaxScans), r \in {0, 2, 3}, o \in 0..1 }

\* the candidates of an indexing: consistent ones of three Bravais
\* lattices in two crystal families, and an inconsistent one
IndexingSolutions ==
    { IndexingSolution(TRUE, 11, <<"t", "P">>),
      IndexingSolution(TRUE, 14, <<"m", "C">>),
      IndexingSolution(FALSE, 14, <<"m", "C">>),
      IndexingSolution(TRUE, 43, <<"m", "I">>) }

\* the allowed lattices of a request: none, one, two of one family, two of
\* different families, one that no candidate has
AllowedLattices ==
    { <<>>, << <<"m", "C">> >>, << <<"m", "I">>, <<"m", "C">> >>,
      << <<"t", "P">>, <<"m", "I">> >>, << <<"o", "P">> >> }

\* lattice choices over up to MaxSolutions candidates in any order
Indexed ==
    { Message("ChooseLattice", ChooseLattice(seq, lattices, char), 1, "r1") :
          seq \in SeqsUpTo(IndexingSolutions, MaxSolutions),
          lattices \in AllowedLattices, char \in {"", "m"} }

\* the centring requests of a translational calibration: setting number
\* below, at or above the total number of rotations, with or without a
\* translation known for the rotation
Requested ==
    { Message("RequestCentring", RequestCentring(n, t, "rot1", tr), 1, "r2") :
          n \in 1..MaxRotations, t \in 2..MaxRotations, tr \in BOOLEAN }

\* strategies of one orientation and of two, after characterisation
Recentred ==
    { Message("GeometricStrategy", GeometricStrategy(seq, FALSE), 1, "r1") :
          seq \in { << SweepSetting("rot1", 0, 0) >>,
                    << SweepSetting("rot1", 0, 0), SweepSetting("rot3", 50, 0) >> } }

\* strategies and a centring request whose centring tasks may yield nothing
Centred ==
    Recentred
    \cup { Message("RequestCentring", RequestCentring(2, 2, "rot1", TRUE), 1, "r2") }

\* strategies, with the lattice choice that ends characterisation
Dosed ==
    { m \in Dispatched : m.kind \in {"GeometricStrategy", "ChooseLattice"} }

\* the messages the engine may put next
Messages(profile, already_sent) ==
    CASE profile = "dispatch" -> Dispatched
      [] profile = "plan" ->
            IF already_sent = 0 THEN Planned
            ELSE { Message("WorkflowCompleted", NonePayload, 0, None) }
      [] profile = "dose" -> Dosed
      [] profile = "collect" ->
            IF already_sent = 0
            THEN { m \in Dispatched : m.kind = "GeometricStrategy" }
            ELSE IF already_sent = 1 THEN Proposed
            ELSE { Message("WorkflowCompleted", NonePayload, 0, None) }
      [] profile = "lattice" ->
            IF already_sent = 0 THEN Indexed
            ELSE { Message("WorkflowCompleted", NonePayload, 0, None) }
      [] profile = "centring" ->
            Requested \cup { Message("WorkflowCompleted", NonePayload, 0, None) }
      [] profile = "recen" ->
            IF already_sent = 0 THEN Recentred
            ELSE { Message("WorkflowCompleted", NonePayload, 0, None) }
      [] profile = "transmission" ->
            IF already_sent = 0 THEN Recentred
            ELSE { Message("WorkflowCompleted", NonePayload, 0, None) }
      [] profile = "noresult" ->
            IF already_sent = 0 THEN Centred
            ELSE { Message("WorkflowCompleted", NonePayload, 0, None) }

\* std_dose_rate (whether the dose rate is known) and the use_dose the user
\* enters in the collection strategy dialogue
UseDoses(profile) ==
    IF profile = "dose" THEN {<< TRUE, 0 >>, << TRUE, 2 >>, << FALSE, 0 >>}
    ELSE {<< TRUE, 1 >>}

\* what self._return_parameters.get() yields for the handler of m
ParameterResults(self, m) ==
    { [type |-> "exception"], [type |-> "StopIteration"] }
    \cup CASE m.kind = "GeometricStrategy" ->
                 { [type |-> "params", snapshot_count |-> self.data_model.snapshot_count,
                    recentring_mode |-> mode, std_dose_rate |-> d[1],
                    use_dose |-> d[2], exposure |-> 10, transmission |-> 50] :
                       mode \in use_modes(self, m.payload), d \in UseDoses(engine) }
           [] m.kind = "ChooseLattice" ->
                 { [type |-> "params", indexing_solution |-> i] :
                       i \in 0..Len(parse_indexing_solution(m.payload).soldict) }
           [] OTHER -> { [type |-> "params"] }

-----------------------------------------------------------------------------
(* Utility functions. Doses are in thousandths of MGy. *)

\* the defaults self.settings.get("maximum_dose_budget", 20) and
\* self.settings.get("decay_limit", 25)
DefaultMaximumDoseBudget == 20000
DefaultDecayLimit == 25

\* the decay limits (%) the budget is computed for
DecayLimits == {0 - 25, 0, 1, 25, 50, 100, 200}

\* math.log(100.0 / decay_limit) in thousandths; ValueError (math domain
\* error) for a negative quotient
math_log(decay_limit) ==
    CASE decay_limit = 1 -> 4605
      [] decay_limit = 25 -> 1386
      [] decay_limit = 50 -> 693
      [] decay_limit = 100 -> 0
      [] decay_limit = 200 -> 0 - 693

Arguments(record) == record @@ [type |-> "arguments"]

\* resolution2dose_budget(resolution, decay_limit, maximum_dose_budget,
\* relative_rad_sensitivity): a falsy decay limit or maximum is replaced by
\* the configured one; nothing is validated
resolution2dose_budget(resolution, decay_limit, maximum_dose_budget, relative_rad_sensitivity) ==
    LET max_budget == IF maximum_dose_budget # 0 THEN maximum_dose_budget
                      ELSE DefaultMaximumDoseBudget
        limit == IF decay_limit # 0 THEN decay_limit ELSE DefaultDecayLimit
    IN  IF limit < 0 THEN [raised |-> "ValueError", value |-> None]
        ELSE [raised |-> None,
              value |-> Min(2 * resolution * resolution * math_log(limit),
                            max_budget) \div relative_rad_sensitivity]

\* Floating-point numbers are exact fractions << numerator, denominator >>
\* in lowest terms with a positive denominator.
RECURSIVE GCD(_, _)
GCD(a, b) == IF b = 0 THEN a ELSE GCD(b, a % b)

Ratio(n, d) ==
    LET g == GCD(Abs(n), Abs(d))
        sign == IF d < 0 THEN 0 - 1 ELSE 1
    IN  << (sign * n) \div g, (sign * d) \div g >>

Whole(n) == << n, 1 >>

Times(x, y) == Ratio(x[1] * y[1], x[2] * y[2])

Over(x, y) == Ratio(x[1] * y[2], x[2] * y[1])

Exceeds(x, y) == x[1] * y[2] > y[1] * x[2]

\* the values map after values_map.set_values(...)
ValuesSet(exposure, transmission, use_dose, experiment_time) ==
    [type |-> "values", exposure |-> exposure, transmission |-> transmission,
     use_dose |-> use_dose, experiment_time |-> experiment_time]

\* an update that never takes the branch for the maximum exposure
update_dose_unclamped(parameters, max_exposure) ==
    LET exposure_time == Whole(parameters.exposure)
        image_width == Whole(parameters.image_width)
        use_dose == Whole(parameters.use_dose)
        std_dose_rate == Whole(parameters.std_dose_rate)
        total_strategy_length == Whole(parameters.total_strategy_length)
        experiment_time == Over(Times(exposure_time, total_strategy_length),
                                image_width)
        transmission == Over(Times(Whole(100), use_dose),
                             Times(std_dose_rate, experiment_time))
    IN  IF 0 \in {parameters.image_width, parameters.exposure,
                  parameters.std_dose_rate, parameters.use_dose}
        THEN [raised |-> None, values |-> NoneResponse]
        ELSE IF parameters.total_strategy_length = 0
        THEN [raised |-> "ZeroDivisionError", values |-> NoneResponse]
        ELSE [raised |-> None,
              values |-> ValuesSet(exposure_time, transmission, use_dose,
                                   experiment_time)]

\* update_dose(values_map): when use_dose changes, the transmission and the
\* exposure time of the parameter popup are derived from it; max_exposure is
\* exposure_limits[1] of the detector (0: none)
update_dose(parameters, max_exposure) ==
    LET exposure_time == Whole(parameters.exposure)
        image_width == Whole(parameters.image_width)
        use_dose == Whole(parameters.use_dose)
        std_dose_rate == Whole(parameters.std_dose_rate)
        total_strategy_length == Whole(parameters.total_strategy_length)
        experiment_time == Over(Times(exposure_time, total_strategy_length),
                                image_width)
        transmission == Over(Times(Whole(100), use_dose),
                             Times(std_dose_rate, experiment_time))
        too_high == Exceeds(transmission, Whole(100))
        transmission2 == IF too_high THEN Whole(100) ELSE transmission
        experiment_time2 == IF too_high THEN Over(use_dose, std_dose_rate)
                            ELSE experiment_time
        exposure_time2 ==
            IF too_high
            THEN Over(Times(experiment_time2, image_width), total_strategy_length)
            ELSE exposure_time
        experiment_time3 ==
            Over(Times(Whole(max_exposure), total_strategy_length), image_width)
    IN  IF 0 \in {parameters.image_width, parameters.exposure,
                  parameters.std_dose_rate, parameters.use_dose}
        THEN [raised |-> None, values |-> NoneResponse]
        ELSE IF parameters.total_strategy_length = 0
        THEN [raised |-> "ZeroDivisionError", values |-> NoneResponse]
        ELSE IF max_exposure # 0 /\ Exceeds(exposure_time2, Whole(max_exposure))
        THEN [raised |-> None,
              values |-> ValuesSet(Whole(max_exposure), Whole(100),
                                   Times(std_dose_rate, experiment_time3),
                                   experiment_time3)]
        ELSE [raised |-> None,
              values |-> ValuesSet(exposure_time2, transmission2, use_dose,
                                   experiment_time2)]

-----------------------------------------------------------------------------
(* The controller: pre_execute, execute, post_execute *)

\* the observation of one step: which operation ran, on which message,
\* which handler was invoked, what it returned or raised, whether the pair
\* (response, correlation_id) was appended, and the collaborator calls
Observed(op, msg, handler, response, raised, appended, calls) ==
    [op |-> op, msg |-> msg, handler |-> handler, response |-> response,
     raised |-> raised, appended |-> appended, calls |-> calls]

NoResults == [r \in ResultLists |-> <<>>]

\* write the fields of self back to the object
Assign(self) ==
    /\ specific_state' = self.specific_state
    /\ _queue_entry' = self._queue_entry
    /\ data_model' = self.data_model
    /\ _workflow_queue' = self._workflow_queue
    /\ queue' = self.queue
    /\ _data_collection_group' = self._data_collection_group
    /\ _server_subprocess_names' = self._server_subprocess_names
    /\ _return_parameters' = self._return_parameters
    /\ _use_fine_zoom' = self._use_fine_zoom
    /\ settings' = self.settings

\* GphlWorkflow.init: the configuration is read and the state set to READY
InitWith(profile) ==
    /\ engine = profile
    /\ settings \in SettingsOf(profile)
    /\ state = "READY"
    /\ specific_state = "READY"
    /\ _queue_entry = None
    /\ data_model = NoDataModel
    /\ _workflow_queue = None
    /\ queue = <<>>
    /\ _data_collection_group = None
    /\ _server_subprocess_names = <<>>
    /\ _return_parameters = None
    /\ _use_fine_zoom = FALSE
    /\ pc = "idle"
    /\ current = NoMessage
    /\ results = NoResults
    /\ sent = 0
    /\ last = Observed("init", NoMessage, None, NoneResponse, None, FALSE, <<>>)

Init == InitWith("dispatch")

InitPlan == InitWith("plan")

InitDose == InitWith("dose")

InitCollect == InitWith("collect")

InitLattice == InitWith("lattice")

InitCentring == InitWith("centring")

InitRecen == InitWith("recen")

InitNoResult == InitWith("noresult")

InitUtility == InitWith("utility")

InitTransmission == InitWith("transmission")

\* pre_execute(queue_entry): refused unless ready; otherwise the run is
\* opened and, outside automation mode, the user is asked for parameters
pre_execute ==
    IF ~is_ready(state)
    THEN /\ pc \in {"loop", "wait_params", "returned", "raised"}
         /\ last' = Observed("pre_execute", NoMessage, None, NoneResponse,
                             "RuntimeError", FALSE, <<>>)
         /\ UNCHANGED << state, specific_state, _queue_entry, data_model,
                         _workflow_queue, queue, _data_collection_group,
                         _server_subprocess_names, _return_parameters,
                         _use_fine_zoom, settings, pc, current, results, sent,
                         engine >>
    ELSE /\ \/ pc = "idle"
            \/ pc \in {"loop", "wait_params", "returned", "raised"}
               /\ state # "READY"
         /\ \E dm \in DataModels(engine) :
              LET updated == update_state("BUSY", specific_state)
                  s1 == [Self EXCEPT !.specific_state = updated[2],
                                     !._queue_entry = "queue_entry",
                                     !.data_model = dm,
                                     !._workflow_queue = "Queue",
                                     !.queue = <<>>]
                  out == IF dm.automation_mode THEN Returns(s1, NoneResponse, <<>>)
                         ELSE query_pre_strategy_params(s1, NonePayload)
              IN  /\ state' = updated[1]
                  /\ Assign(out.self)
                  /\ pc' = IF out.blocked THEN "pre_params" ELSE "pre_done"
                  /\ last' = Observed("pre_execute", NoMessage, None,
                                      NoneResponse, None, FALSE, out.calls)
         /\ current' = NoMessage
         /\ results' = NoResults
         /\ sent' = 0
         /\ UNCHANGED engine

\* what self._return_parameters.get() yielded, as an observation
Got(result) == Message("_return_parameters", [type |-> result.type], 0, None)

\* pre_execute once self._return_parameters.get() has returned or raised
pre_execute_resume ==
    /\ pc = "pre_params"
    /\ \E result \in ParameterResults(Self, NoMessage) :
         LET s1 == [Self EXCEPT !._return_parameters = None]
             out == IF result.type = "exception"
                    THEN Raises(s1, "RuntimeError", <<>>)
                    ELSE IF result.type = "StopIteration"
                    THEN workflow_failed(s1, NonePayload, 0)
                    ELSE Returns(s1, NoneResponse, <<>>)
         IN  /\ Assign(out.self)
             /\ pc' = IF out.raised # None THEN "pre_raised" ELSE "pre_done"
             /\ last' = Observed("pre_execute", Got(result), None, NoneResponse,
                                 out.raised, FALSE, out.calls)
    /\ UNCHANGED << state, current, results, sent, engine >>

\* execute up to the loop: the engine is started with the queue
execute ==
    /\ pc = "pre_done"
    /\ pc' = "loop"
    /\ last' = Observed("execute", NoMessage, None, NoneResponse, None, FALSE,
                        << Call("start_workflow", "gphl_connection",
                                TaskNode("Queue")) >>)
    /\ UNCHANGED << state, specific_state, _queue_entry, data_model,
                    _workflow_queue, queue, _data_collection_group,
                    _server_subprocess_names, _return_parameters,
                    _use_fine_zoom, settings, current, results, sent, engine >>

\* the connection puts a message of the engine on the queue it was given
put ==
    /\ pc \in {"loop", "wait_params", "returned", "raised"}
    /\ _workflow_queue # None
    /\ sent < MaxMessages
    /\ \E m \in Messages(engine, sent) :
         /\ queue' = Append(queue, m)
         /\ last' = Observed("put", m, None, NoneResponse, None, FALSE, <<>>)
    /\ sent' = sent + 1
    /\ UNCHANGED << state, specific_state, _queue_entry, data_model,
                    _workflow_queue, _data_collection_group,
                    _server_subprocess_names, _return_parameters,
                    _use_fine_zoom, settings, pc, current, results, engine >>

\* an append that does not wait for the handler to return
AppendedAlways(m, out) ==
    IF m.result_list # None
    THEN [results EXCEPT ![m.result_list] =
              Append(@, << out.response, m.correlation_id >>)]
    ELSE results

\* result_list.append((response, correlation_id)) when a list was given
Appended(m, out) ==
    IF m.result_list # None /\ out.raised = None /\ ~out.blocked
    THEN [results EXCEPT ![m.result_list] =
              Append(@, << out.response, m.correlation_id >>)]
    ELSE results

\* a loop that breaks at the stop sentinel only
LoopEndsAtSentinel(tt0, func) == tt0 = StopIteration

\* the loop breaks at the stop sentinel and at a message without handler
LoopEnds(tt0, func) == tt0 = StopIteration \/ func = None

\* the handler is called for every kind but String
Invoked(message_type) == message_type # "String"

\* a loop that never notices that post_execute has run
aborted_never(workflow_queue) == FALSE

\* 'if self._workflow_queue is None': post_execute has already run
aborted(workflow_queue) == workflow_queue = None

\* one iteration of the loop of execute
iteration ==
    /\ pc = "loop"
    /\ aborted(_workflow_queue) \/ queue # <<>>
    /\ IF aborted(_workflow_queue)
       THEN /\ pc' = "raised"
            /\ last' = Observed("iteration", NoMessage, None, NoneResponse,
                                "QueueAbortedException", FALSE, <<>>)
            /\ UNCHANGED << specific_state, _queue_entry, data_model,
                            _workflow_queue, queue, _data_collection_group,
                            _server_subprocess_names, _return_parameters,
                            _use_fine_zoom, settings, current, results >>
       ELSE LET tt0 == Head(queue)
                s0 == [Self EXCEPT !.queue = Tail(queue)]
                func == processor_function(tt0.kind)
            IN  IF LoopEnds(tt0, func)
                THEN /\ Assign(s0)
                     /\ pc' = "returned"
                     /\ last' = Observed("iteration", tt0, None, NoneResponse,
                                    None, FALSE,
                                    IF tt0 = StopIteration THEN <<>>
                                    ELSE << Call("logging.error", "HWR",
                                                 Text("not recognised")) >>)
                     /\ UNCHANGED << current, results >>
                ELSE IF ~Invoked(tt0.kind)
                THEN /\ Assign(s0)
                     /\ pc' = "loop"
                     /\ last' = Observed("iteration", tt0, None, NoneResponse,
                                         None, FALSE, <<>>)
                     /\ UNCHANGED << current, results >>
                ELSE \E ext \in Externals(engine, tt0.kind) :
                       LET out == CallHandler(s0, func, tt0, ext)
                       IN  /\ Assign(out.self)
                           /\ pc' = IF out.raised # None THEN "raised"
                                    ELSE IF out.blocked THEN "wait_params"
                                    ELSE "loop"
                           /\ current' = IF out.blocked THEN tt0 ELSE NoMessage
                           /\ results' = Appended(tt0, out)
                           /\ last' = Observed("iteration", tt0, func,
                                          out.response, out.raised,
                                          results' # results, out.calls)
    /\ UNCHANGED << state, sent, engine >>

\* the suspended handler continues once the parameters have arrived
resume ==
    /\ pc = "wait_params"
    /\ \E result \in ParameterResults(Self, current) :
       \E ext \in Externals(engine, current.kind) :
         LET out == ResumeHandler(Self, processor_function(current.kind),
                                 current, result, ext)
         IN  /\ Assign(out.self)
             /\ pc' = IF out.raised # None THEN "raised" ELSE "loop"
             /\ results' = Appended(current, out)
             /\ last' = Observed("resume", current,
                                 processor_function(current.kind), out.response,
                                 out.raised, results' # results, out.calls)
    /\ current' = NoMessage
    /\ UNCHANGED << state, sent, engine >>

\* post_execute: the queue entry is over, or aborted while the greenlet
\* waits in queue.get() or in a handler
post_execute ==
    /\ \/ pc \in {"returned", "raised", "pre_raised", "wait_params"}
       \/ pc = "loop" /\ queue = <<>> /\ _workflow_queue # None
    /\ LET updated == update_state("READY", specific_state)
       IN  /\ state' = updated[1]
           /\ specific_state' = updated[2]
    /\ _queue_entry' = None
    /\ _data_collection_group' = None
    /\ _server_subprocess_names' = <<>>
    /\ _workflow_queue' = None
    /\ pc' = IF pc = "wait_params" THEN pc ELSE "idle"
    /\ last' = Observed("post_execute", NoMessage, None, NoneResponse, None,
                        FALSE,
                        << Call("emit", "gphl_workflow_finished",
                                Text(specific_state)),
                           Call("workflow_ended", "gphl_connection",
                                TaskNode("None")) >>)
    /\ UNCHANGED << data_model, queue, _return_parameters, _use_fine_zoom,
                    settings, current, results, sent, engine >>

Next ==
    \/ pre_execute
    \/ pre_execute_resume
    \/ execute
    \/ put
    \/ iteration
    \/ resume
    \/ post_execute

Spec == Init /\ [][Next]_vars

SpecPlan == InitPlan /\ [][Next]_vars

SpecDose == InitDose /\ [][Next]_vars

SpecCollect == InitCollect /\ [][Next]_vars

SpecLattice == InitLattice /\ [][Next]_vars

SpecCentring == InitCentring /\ [][Next]_vars

SpecRecen == InitRecen /\ [][Next]_vars

SpecNoResult == InitNoResult /\ [][Next]_vars

SpecTransmission == InitTransmission /\ [][Next]_vars

\* a call of resolution2dose_budget with arguments from small sets
resolution2dose_budget_call ==
    /\ engine = "utility"
    /\ \E resolution \in {0 - 2, 0, 1, 2, 3}, decay_limit \in DecayLimits,
          maximum_dose_budget \in {0, 5000}, relative_rad_sensitivity \in {1, 2} :
         LET budget == resolution2dose_budget(resolution, decay_limit,
                           maximum_dose_budget, relative_rad_sensitivity)
         IN  last' = Observed("resolution2dose_budget",
                         Message("resolution2dose_budget",
                             Arguments([resolution |-> resolution,
                                 decay_limit |-> decay_limit,
                                 maximum_dose_budget |-> maximum_dose_budget,
                                 relative_rad_sensitivity |-> relative_rad_sensitivity]),
                             0, None),
                         None,
                         IF budget.raised = None THEN Value(budget.value)
                         ELSE NoneResponse,
                         budget.raised, FALSE, <<>>)
    /\ UNCHANGED << state, specific_state, _queue_entry, data_model,
                    _workflow_queue, queue, _data_collection_group,
                    _server_subprocess_names, _return_parameters,
                    _use_fine_zoom, settings, pc, current, results, sent,
                    engine >>

\* a call of update_dose on a values map of the parameter popup
update_dose_call ==
    /\ engine = "utility"
    /\ \E exposure \in {0, 1, 4}, image_width \in {0, 1, 2}, use_dose \in {0, 5, 40},
          std_dose_rate \in {0, 1, 2}, total_strategy_length \in {0, 10, 360},
          max_exposure \in {0, 2, 10} :
         LET parameters == [exposure |-> exposure, image_width |-> image_width,
                            use_dose |-> use_dose, std_dose_rate |-> std_dose_rate,
                            total_strategy_length |-> total_strategy_length]
             updated == update_dose(parameters, max_exposure)
         IN  last' = Observed("update_dose",
                         Message("update_dose",
                             Arguments(parameters @@ [max_exposure |-> max_exposure]),
                             0, None),
                         None, updated.values, updated.raised, FALSE, <<>>)
    /\ UNCHANGED << state, specific_state, _queue_entry, data_model,
                    _workflow_queue, queue, _data_collection_group,
                    _server_subprocess_names, _return_parameters,
                    _use_fine_zoom, settings, pc, current, results, sent,
                    engine >>

\* the utility functions, called on their own
NextUtility ==
    \/ resolution2dose_budget_call
    \/ update_dose_call

SpecUtility == InitUtility /\ [][NextUtility]_vars

-----------------------------------------------------------------------------
(* Properties *)

TerminalStates == {"COMPLETED", "ABORTED", "FAULT"}

TerminalKinds == {"WorkflowCompleted", "WorkflowAborted", "WorkflowFailed"}

\* the terminal state a Workflow* message names
TerminalOf(kind) ==
    CASE kind = "WorkflowCompleted" -> "COMPLETED"
      [] kind = "WorkflowAborted" -> "ABORTED"
      [] kind = "WorkflowFailed" -> "FAULT"

\* the step is an iteration of the loop that dequeued a message of a kind
\* without handler
DequeuedUnrecognised ==
    /\ last'.op = "iteration"
    /\ last'.msg.kind \notin ProcessorFunctions \cup {"StopIteration", "None"}

\* C1: every change of the specific state is READY -> BUSY by pre_execute,
\* BUSY -> COMPLETED / ABORTED / FAULT by the message of that name, or
\* COMPLETED / ABORTED / FAULT -> READY by post_execute.
C1_OnlyLifecycleTransitions ==
    [][specific_state' # specific_state =>
         \/ /\ specific_state = "READY"
            /\ specific_state' = "BUSY"
            /\ last'.op = "pre_execute"
         \/ /\ specific_state = "BUSY"
            /\ last'.op = "iteration"
            /\ last'.msg.kind \in TerminalKinds
            /\ specific_state' = TerminalOf(last'.msg.kind)
         \/ /\ specific_state \in TerminalStates
            /\ specific_state' = "READY"
            /\ last'.op = "post_execute"]_vars

\* C2: once the specific state is COMPLETED, ABORTED or FAULT it keeps that
\* value until post_execute resets it to READY.
C2_TerminalStateKept ==
    [][(specific_state \in TerminalStates /\ specific_state' # specific_state)
         => (specific_state' = "READY" /\ last'.op = "post_execute")]_vars

\* C3: handling WorkflowAborted / WorkflowCompleted / WorkflowFailed sets the
\* specific state of that name and appends the stop sentinel to the queue;
\* dequeuing the sentinel ends the loop; once the loop has ended no message
\* is handled until the run is torn down, and the next run starts with an
\* empty queue.
C3_TerminalMessageStopsLoop ==
    [][/\ (last'.op = "iteration" /\ last'.msg.kind \in TerminalKinds) =>
            /\ last'.handler = processor_function(last'.msg.kind)
            /\ last'.raised = None
            /\ specific_state' = TerminalOf(last'.msg.kind)
            /\ queue' = Append(Tail(queue), StopIteration)
       /\ (last'.op = "iteration" /\ last'.msg = StopIteration) =>
            /\ Head(queue) = StopIteration
            /\ pc' = "returned"
       /\ pc = "returned" =>
            /\ last'.op \notin {"iteration", "resume"}
            /\ pc' \in {"returned", "idle"}
       /\ (pc = "idle" /\ pc' # "idle") => queue' = <<>>]_vars

\* a sentinel put by a terminal handler was dequeued and ended the loop,
\* with a message left behind it
C3_Witness ==
    /\ pc = "returned"
    /\ last.op = "iteration"
    /\ last.msg = StopIteration
    /\ specific_state \in TerminalStates
    /\ queue # <<>>

\* C4: dequeuing a message whose kind has no handler ends the loop without
\* raising, and no message left in or later put on the queue is handled in
\* that run.
C4_UnrecognisedKindEndsLoop ==
    [][/\ DequeuedUnrecognised =>
            /\ pc' = "returned"
            /\ last'.raised = None
            /\ last'.handler = None
       /\ (pc = "returned" /\ last'.op # "post_execute") =>
            /\ pc' = "returned"
            /\ last'.handler = None
            /\ Len(queue') >= Len(queue)]_vars

\* the loop has ended at an unrecognised message with a message left behind
C4_Witness ==
    /\ pc = "returned"
    /\ last.op = "iteration"
    /\ last.msg.kind = "BeamlineAbort"
    /\ queue # <<>>

\* C5: dequeuing a message of unrecognised kind changes neither the specific
\* state nor any result list.
C5_UnrecognisedKindFrame ==
    [][DequeuedUnrecognised =>
         /\ specific_state' = specific_state
         /\ results' = results
         /\ ~last'.appended]_vars

\* an unrecognised message that carried a result list was dequeued while
\* the run was BUSY
C5_Witness ==
    /\ last.op = "iteration"
    /\ last.msg.kind = "BeamlineAbort"
    /\ last.msg.result_list # None
    /\ specific_state = "BUSY"
    /\ results = NoResults

\* C6: for every dequeued message whose kind is in the dispatch table,
\* String included, the handler of that kind is invoked with the payload and
\* correlation id; for String the text is logged under the subprocess name
\* tracked for the correlation id.
C6_EveryTableKindInvoked ==
    [][(last'.op = "iteration" /\ last'.msg.kind \in ProcessorFunctions) =>
         /\ last'.handler = processor_function(last'.msg.kind)
         /\ last'.msg.kind = "String" =>
              last'.calls = echo_info_string(Self, last'.msg.payload,
                                             last'.msg.correlation_id).calls]_vars

\* the message whose handler ran in the step, and what the handler can
\* have returned
HandledMessage == IF last'.op = "resume" THEN current ELSE Head(queue)

HandlerReturned(response) ==
    LET m == HandledMessage
        func == processor_function(m.kind)
    IN  \E ext \in Externals(engine, m.kind) :
          IF last'.op = "resume"
          THEN \E result \in ParameterResults(Self, m) :
                 LET out == ResumeHandler(Self, func, m, result, ext)
                 IN  out.raised = None /\ out.response = response
          ELSE LET out == CallHandler([Self EXCEPT !.queue = Tail(queue)],
                                      func, m, ext)
               IN  out.raised = None /\ ~out.blocked /\ out.response = response

\* C7: a pair appended to a result list goes to the list of the message just
\* handled, with that message's correlation id and the response its handler
\* returned; one pair at most per message, appended before the next message
\* is dequeued.
C7_ResultPairs ==
    [][/\ results' # results =>
            \/ last'.op = "pre_execute" /\ results' = NoResults
            \/ /\ last'.op \in {"iteration", "resume"}
               /\ last'.msg = HandledMessage
               /\ last'.msg.result_list # None
               /\ results' =
                    [results EXCEPT ![last'.msg.result_list] =
                         Append(@, << last'.response,
                                      last'.msg.correlation_id >>)]
               /\ HandlerReturned(last'.response)
               /\ pc' = "loop"
       /\ pc = "wait_params" => last'.op # "iteration"]_vars

\* a suspended handler has returned and its pair is in the list of its
\* message, behind the pair of an earlier message
C7_Witness ==
    /\ last.op = "resume"
    /\ last.appended
    /\ last.msg.result_list # None
    /\ Len(results[last.msg.result_list]) = 2

\* the task groups setup_data_collection opens
StrategyGroups ==
    {"GPhL Data Collection", "GPhL DiffractCal", "GPhL Characterisation"}

\* the step ran collect_data, which enqueued an acquisition task
EnqueuedAcquisition ==
    /\ last'.handler = "collect_data"
    /\ \E i \in 1..Len(last'.calls) :
         /\ last'.calls[i].op = "add_to_queue"
         /\ last'.calls[i].detail.type = "DataCollection"

\* C8: whenever collect_data enqueues an acquisition task, a task group
\* opened by setup_data_collection in this run is open, and the task goes
\* under it.
C8_GroupOpenWhenEnqueuing ==
    [][EnqueuedAcquisition =>
         /\ _data_collection_group \in StrategyGroups
         /\ \A i \in 1..Len(last'.calls) :
              (/\ last'.calls[i].op = "add_to_queue"
               /\ last'.calls[i].detail.type = "DataCollection")
              => last'.calls[i].target = _data_collection_group]_vars

\* C9: after collect_data has returned its completion record no task group
\* is open.
C9_GroupClearedAfterCollection ==
    [][(/\ last'.handler = "collect_data"
        /\ last'.raised = None
        /\ last'.response.type = "CollectionDone")
         => _data_collection_group' = None]_vars

\* the id a translation is tied to: the requested rotation when it is given,
\* else the rotation of the translation
TiedId(translation) ==
    IF translation.requestedRotationId # None
    THEN translation.requestedRotationId
    ELSE translation.rotation_id

\* the distinct sweep-setting ids of a plan in first-encountered order
FirstEncountered(sweeps) ==
    LET ids == [i \in 1..Len(sweeps) |-> sweeps[i].goniostatSweepSetting.id_]
        firsts == {i \in 1..Len(sweeps) : \A j \in 1..(i - 1) : ids[j] # ids[i]}
    IN  [k \in 1..Cardinality(firsts) |->
            ids[CHOOSE i \in firsts :
                    Cardinality({j \in firsts : j < i}) = k - 1]]

\* C10: when setup_data_collection returns SampleCentred, the goniostat
\* translations hold one translation for each distinct sweep-setting id of
\* the plan, tied to that id, in first-encountered order, reversed for
\* recentring mode start.
C10_TranslationsCoverPlan ==
    [][(/\ last'.handler = "setup_data_collection"
        /\ last'.raised = None
        /\ last'.response.type = "SampleCentred")
         => LET translations == data_model'.goniostat_translations
                tied == [i \in 1..Len(translations) |-> TiedId(translations[i])]
                expected == FirstEncountered(last'.msg.payload.sweeps)
            IN  tied = IF data_model'.recentring_mode = "start"
                       THEN Reverse(expected) ELSE expected]_vars

\* a plan of three sweeps over two settings was centred in mode start
C10_Witness ==
    /\ last.handler = "setup_data_collection"
    /\ last.response.type = "SampleCentred"
    /\ data_model.recentring_mode = "start"
    /\ Len(last.msg.payload.sweeps) = 3
    /\ Len(data_model.goniostat_translations) = 2
    /\ data_model.goniostat_translations[1].rotation_id
           # last.msg.payload.sweeps[1].goniostatSweepSetting.id_

\* C11: within one run the characterisation dose and the acquisition dose
\* never decrease: after each GeometricStrategy message each field is at
\* least what it was before the message.
C11_DoseNeverDecreases ==
    [][last'.handler = "setup_data_collection" =>
         /\ data_model'.characterisation_dose >= data_model.characterisation_dose
         /\ data_model'.acquisition_dose >= data_model.acquisition_dose]_vars

\* C12: from the SubprocessStarted that registers a correlation id until
\* the SubprocessStopped for that id, the name tracked under the id is
\* neither replaced nor removed within the run; the entry is removed by
\* that SubprocessStopped only (post_execute ends the run and clears the
\* table).
C12_SubprocessNameKept ==
    [][\A c \in DOMAIN _server_subprocess_names :
         (\/ c \notin DOMAIN _server_subprocess_names'
          \/ _server_subprocess_names'[c] # _server_subprocess_names[c])
         => \/ last'.op = "post_execute"
            \/ /\ last'.op = "iteration"
               /\ last'.msg.kind = "SubprocessStopped"
               /\ last'.msg.correlation_id = c
               /\ c \notin DOMAIN _server_subprocess_names']_vars

-----------------------------------------------------------------------------
(* The translation of a collection plan: CollectionProposal, collect_data *)

\* the acquisition tasks a handler call has enqueued, in order
AcquisitionTasks(calls) ==
    LET enqueued == SelectSeq(calls, LAMBDA c : /\ c.op = "add_to_queue"
                                                /\ c.detail.type = "DataCollection")
    IN  [i \in 1..Len(enqueued) |-> enqueued[i].detail]

\* the step handles a CollectionProposal whose strategy declares a repeat
\* count, with multi-trigger mode enabled in the settings
MultiTriggerPlanHandled ==
    /\ last'.handler = "collect_data"
    /\ settings.use_multitrigger
    /\ last'.msg.payload.sweepRepeat # 0

\* C13: for a plan whose declared repeat count equals its number of
\* unrolled scans, with multi-trigger mode enabled, collect_data enqueues
\* exactly one acquisition task, whose image count is the first scan's
\* image count times the repeat count.
C13_OneMultiTriggerTask ==
    [][(/\ MultiTriggerPlanHandled
        /\ last'.msg.payload.sweepRepeat = Len(last'.msg.payload.scans)
        /\ last'.raised = None)
       => LET tasks == AcquisitionTasks(last'.calls)
              plan == last'.msg.payload
          IN  /\ Len(tasks) = 1
              /\ tasks[1].num_images
                   = plan.scans[1].numImages * plan.sweepRepeat]_vars

\* C14: for a plan whose declared repeat count differs from its number of
\* unrolled scans, with multi-trigger mode enabled, collect_data raises the
\* validation error whatever the sweep offset, and has enqueued no
\* acquisition task.
C14_RepeatCountValidated ==
    [][(/\ MultiTriggerPlanHandled
        /\ last'.msg.payload.sweepRepeat # Len(last'.msg.payload.scans))
       => /\ last'.raised = "ValueError"
          /\ AcquisitionTasks(last'.calls) = <<>>]_vars

\* the step is a call of collect_data that went through its scans
PlanTranslated ==
    /\ last'.handler = "collect_data"
    /\ last'.raised = None

C16_NoSnapshotsForSameRotation ==
    [][PlanTranslated =>
         LET tasks == AcquisitionTasks(last'.calls)
         IN  \A i \in 2..Len(tasks) :
               tasks[i].rotation_id = tasks[i - 1].rotation_id
               => tasks[i].take_snapshots = 0]_vars

\* two consecutive scans of one rotation id have been translated; the
\* first requested snapshots and the second none
C16_Witness ==
    LET tasks == AcquisitionTasks(last.calls)
    IN  /\ last.handler = "collect_data"
        /\ last.raised = None
        /\ Len(tasks) >= 2
        /\ tasks[1].rotation_id = tasks[2].rotation_id
        /\ tasks[1].take_snapshots > 0
        /\ tasks[2].take_snapshots = 0

IsAcquisition(call) ==
    call.op = "add_to_queue" /\ call.detail.type = "DataCollection"

IsRecentring(call) == call.detail.type \in {"XrayCentring", "SampleCentring"}

\* a recentring has been enqueued just before the i-th acquisition task
RecentredBefore(calls, i) ==
    LET at == CHOOSE p \in 1..Len(calls) :
                  /\ IsAcquisition(calls[p])
                  /\ Cardinality({q \in 1..p : IsAcquisition(calls[q])}) = i
    IN  at > 1 /\ IsRecentring(calls[at - 1])

\* the kappa/phi deviation between the orientations of two scans
Deviation(scan, previous) ==
    LET to == scan.sweep.goniostatSweepSetting
        from == previous.sweep.goniostatSweepSetting
    IN  Max(Abs(to.kappa - from.kappa), Abs(to.kappa_phi - from.kappa_phi))

\* C17: in recentring mode sweep, a scan whose rotation id equals the
\* previous scan's, or whose kappa/phi deviation from the previous scan is
\* within the angular tolerance, triggers no recentring and uses the
\* precomputed centred position.
C17_SweepModeRecentresFirstScanOnly ==
    [][(PlanTranslated /\ data_model.recentring_mode = "sweep") =>
         LET tasks == AcquisitionTasks(last'.calls)
             scans == last'.msg.payload.scans
         IN  \A i \in 2..Len(tasks) :
               (\/ tasks[i].rotation_id = tasks[i - 1].rotation_id
                \/ Deviation(scans[i], scans[i - 1]) <= settings.angular_tolerance)
               => /\ ~ RecentredBefore(last'.calls, i)
                  /\ tasks[i].centred_position]_vars

\* C18: in recentring mode scan, a recentring is enqueued before every scan
\* of the plan, the first scan included.
C18_ScanModeRecentresEveryScan ==
    [][(PlanTranslated /\ data_model.recentring_mode = "scan") =>
         LET tasks == AcquisitionTasks(last'.calls)
         IN  \A i \in 1..Len(tasks) : RecentredBefore(last'.calls, i)]_vars

-----------------------------------------------------------------------------
(* Recentring mode none *)

\* a centring task is executed
IsCentringExecution(call) ==
    call.op = "execute_entry" /\ call.target = "SampleCentring"

\* the step is a call of setup_data_collection that went on to the
\* centring of the orientations, in the recentring mode of the run
StrategyHandledInMode(recentring_mode) ==
    /\ last'.handler = "setup_data_collection"
    /\ pc' # "wait_params"
    /\ last'.response # StopIterationResponse
    /\ data_model'.recentring_mode = recentring_mode

\* C19: in recentring mode none, neither setup_data_collection nor
\* collect_data enqueues or executes a physical recentring task, whatever
\* the recentre-before-start flag, the characterisation state and the
\* strategy type.
C19_NoRecentringInModeNone ==
    [][(\/ StrategyHandledInMode("none")
        \/ /\ last'.handler = "collect_data"
           /\ data_model'.recentring_mode = "none")
       => \A i \in 1..Len(last'.calls) :
            /\ ~ IsRecentring(last'.calls[i])
            /\ ~ IsCentringExecution(last'.calls[i])]_vars

\* C20: in recentring mode none with no recentring parameters loaded,
\* setup_data_collection fails with the configuration error, for every
\* plan: one or several orientations, the first within or outside the
\* tolerance.
C20_ModeNoneNeedsParameters ==
    [][(StrategyHandledInMode("none") /\ ~ settings.transcal_file)
       => last'.raised = "RuntimeError"]_vars

-----------------------------------------------------------------------------
(* Recentring mode start *)

\* the rotation ids of the centring tasks a handler call has executed, in
\* the order of execution
CentringsExecuted(calls) ==
    LET executed == SelectSeq(calls, IsCentringExecution)
    IN  [i \in 1..Len(executed) |-> executed[i].detail.id_]

\* the ids of the distinct orientations of a plan, in reverse plan order
ReversePlanOrder(sweeps) ==
    LET sweepSettings == Reverse(OrderedSweepSettings(sweeps, {}))
    IN  [i \in 1..Len(sweepSettings) |-> sweepSettings[i].id_]

\* C21: in recentring mode start, setup_data_collection executes a physical
\* recentring for every distinct orientation of the plan, in reverse plan
\* order, all of them before it returns.
C21_StartModeRecentresAllOrientations ==
    [][(StrategyHandledInMode("start") /\ last'.raised = None)
       => CentringsExecuted(last'.calls)
            = ReversePlanOrder(last'.msg.payload.sweeps)]_vars

-----------------------------------------------------------------------------
(* The end of collect_data: execution of the task group *)

\* the execution call of the step raised: the failure has been signalled
ExecutionRaised(calls) ==
    \E i \in 1..Len(calls) :
       calls[i].op = "emit" /\ calls[i].target = "queue_execution_failed"

\* C22: when the execution of the submitted task group raises, collect_data
\* does not raise and returns a completion record with status 1.
C22_ExecutionFailureReported ==
    [][(/\ last'.handler = "collect_data"
        /\ _data_collection_group # None
        /\ ExecutionRaised(last'.calls))
       => /\ last'.raised = None
          /\ last'.response = [type |-> "CollectionDone", status |-> 1]]_vars

\* C23: with init_spot_dir set, collect_data returns a completion record
\* with status 0, enqueues no acquisition task and no recentring task,
\* executes nothing and leaves the current rotation id as it was.
C23_PriorDataSkipsCollection ==
    [][(last'.handler = "collect_data" /\ data_model.init_spot_dir)
       => /\ last'.raised = None
          /\ last'.response = [type |-> "CollectionDone", status |-> 0]
          /\ last'.calls = <<>>
          /\ data_model'.current_rotation_id = data_model.current_rotation_id]_vars

\* a proposal has been answered in a session that holds the data of a prior
\* processing step
C23_Witness ==
    /\ last.handler = "collect_data"
    /\ last.msg.kind = "CollectionProposal"
    /\ Len(last.msg.payload.scans) > 0
    /\ data_model.init_spot_dir
    /\ last.response = [type |-> "CollectionDone", status |-> 0]
    /\ last.calls = <<>>

-----------------------------------------------------------------------------
(* ChooseLattice: the selection of an indexing solution *)

\* the least position of seq that satisfies Test, 0 when there is none
FirstWhere(seq, Test(_)) ==
    LET hits == {i \in 1..Len(seq) : Test(seq[i])}
    IN  IF hits = {} THEN 0 ELSE CHOOSE i \in hits : \A j \in hits : i <= j

\* the family letter of the rule: the given one, or the one derived when
\* none is given and all allowed tags share their first letter ("": none)
FamilyLetter(choose_lattice) ==
    LET lattices == choose_lattice.lattices
        letters == {lattices[k][1] : k \in 1..Len(lattices)}
    IN  IF choose_lattice.crystalFamilyChar # ""
        THEN choose_lattice.crystalFamilyChar
        ELSE IF Cardinality(letters) = 1 THEN CHOOSE c \in letters : TRUE
        ELSE ""

\* the position, among the consistent solutions, that the selection rule
\* designates
SelectedByRule(choose_lattice) ==
    LET consistent == Consistent(choose_lattice.indexingSolutions)
        lattices == choose_lattice.lattices
        allowed == {lattices[k] : k \in 1..Len(lattices)}
        letter == FamilyLetter(choose_lattice)
        InAllowed(sol) == sol.bravaisLattice \in allowed
        InFamily(sol) == letter # "" /\ sol.bravaisLattice[1] = letter
        LikeLast(sol) == sol.bravaisLattice
                             = consistent[Len(consistent)].bravaisLattice
    IN  IF FirstWhere(consistent, InAllowed) # 0
        THEN FirstWhere(consistent, InAllowed)
        ELSE IF FirstWhere(consistent, InFamily) # 0
        THEN FirstWhere(consistent, InFamily)
        ELSE FirstWhere(consistent, LikeLast)

\* the step handles a lattice choice that has a consistent solution
LatticeChoiceHandled ==
    /\ last'.op = "iteration"
    /\ last'.handler = "select_lattice"
    /\ Consistent(last'.msg.payload.indexingSolutions) # <<>>

\* C24: for every candidate list with a consistent solution, the row
\* selected by parse_indexing_solution is the first consistent solution
\* whose Bravais tag is allowed; else the first consistent one whose tag
\* starts with the family letter, given or derived; else the first
\* consistent one with the Bravais tag of the last consistent solution.
C24_SelectedRowFollowsRule ==
    [][LatticeChoiceHandled =>
         LET parsed == parse_indexing_solution(last'.msg.payload)
         IN  /\ parsed.raised = None
             /\ parsed.select_row + 1 = SelectedByRule(last'.msg.payload)]_vars

\* a choice has been answered where no consistent solution is allowed and
\* the family letter is derived from the allowed tags: of the consistent
\* tP and mI, with mC allowed, the second is selected
C24_Witness ==
    /\ last.handler = "select_lattice"
    /\ last.response.type = "SelectedLattice"
    /\ last.msg.payload.crystalFamilyChar = ""
    /\ last.msg.payload.lattices = << <<"m", "C">> >>
    /\ last.msg.payload.indexingSolutions
         = << IndexingSolution(TRUE, 11, <<"t", "P">>),
              IndexingSolution(TRUE, 43, <<"m", "I">>) >>
    /\ parse_indexing_solution(last.msg.payload).select_row = 1
    /\ last.response.indexingSolution = IndexingSolution(TRUE, 43, <<"m", "I">>)

\* C25: in automation mode the indexing solution of the SelectedLattice
\* reply is the solution the selection rule designates, for every order of
\* consistent and inconsistent candidates.
C25_ReplyCarriesSelectedSolution ==
    [][(LatticeChoiceHandled /\ data_model.automation_mode)
       => /\ last'.raised = None
          /\ last'.response.type = "SelectedLattice"
          /\ last'.response.indexingSolution
               = Consistent(last'.msg.payload.indexingSolutions)
                     [SelectedByRule(last'.msg.payload)]]_vars

-----------------------------------------------------------------------------
(* RequestCentring: fine zoom and return status *)

\* C26: once the fine-zoom flag is true it stays true, whatever
\* RequestCentring messages follow.
C26_FineZoomStaysActive ==
    [][_use_fine_zoom => _use_fine_zoom']_vars

\* C29: the centring-done record of process_centring_request has status
\* DONE exactly when the current setting number of the request is greater
\* than or equal to its total number of rotations, and NEXT otherwise.
C29_DoneAtLastRotation ==
    [][last'.response.type = "CentringDone" =>
         LET request_centring == last'.msg.payload
         IN  /\ last'.handler = "process_centring_request"
             /\ last'.response.status \in {"DONE", "NEXT"}
             /\ last'.response.status = "DONE"
                  <=> request_centring.currentSettingNo
                          >= request_centring.totalRotations]_vars

\* a request beyond the total (setting 3 of 2) has been answered DONE after
\* one below the total was answered NEXT
C29_Witness ==
    /\ last.response.type = "CentringDone"
    /\ last.msg.payload.currentSettingNo > last.msg.payload.totalRotations
    /\ last.response.status = "DONE"
    /\ Len(results["r2"]) = 2
    /\ results["r2"][1][1].status = "NEXT"

-----------------------------------------------------------------------------
(* GeometricStrategy: the query short-circuited *)

\* the handler of a GeometricStrategy waits for the user's parameters
StrategyQueryPending ==
    pc = "wait_params" /\ current.kind = "GeometricStrategy"

\* what the handler does when the query yields the stop-iteration sentinel
StrategyQueryStopped(ext) ==
    ResumeHandler(Self, processor_function(current.kind), current,
                  [type |-> "StopIteration"], ext)

\* C27: when the parameter query of a GeometricStrategy is short-circuited
\* with the stop-iteration sentinel, setup_data_collection returns that
\* sentinel, opens no data-collection group, enqueues no recentring task
\* and produces no goniostat translations.
C27_StoppedQueryHasNoEffect ==
    [][StrategyQueryPending =>
         /\ \A ext \in Externals(engine, current.kind) :
              LET out == StrategyQueryStopped(ext)
              IN  /\ out.raised = None
                  /\ out.response = StopIterationResponse
                  /\ out.calls = <<>>
                  /\ out.self._data_collection_group = _data_collection_group
                  /\ out.self.data_model = data_model
         /\ (last'.op = "resume" /\ last'.response = StopIterationResponse)
              => /\ last'.raised = None
                 /\ last'.calls = <<>>
                 /\ _data_collection_group' = _data_collection_group
                 /\ data_model' = data_model]_vars

\* a strategy of two orientations has been answered with the sentinel: no
\* group is open and the data model holds no translation
C27_Witness ==
    /\ last.op = "resume"
    /\ last.handler = "setup_data_collection"
    /\ Len(last.msg.payload.sweeps) = 2
    /\ last.response = StopIterationResponse
    /\ last.calls = <<>>
    /\ _data_collection_group = None
    /\ data_model.goniostat_translations = <<>>

-----------------------------------------------------------------------------
(* The end of a run: post_execute *)

\* C28: after post_execute, whatever state the run ended in, the state is
\* READY and there is no queue entry, no open data-collection group, no
\* tracked subprocess name and no inbound queue; a pre_execute that follows
\* is accepted and moves the state to BUSY.
C28_PostExecuteTearsDown ==
    [][/\ last'.op = "post_execute" =>
            /\ state' = "READY"
            /\ is_ready(state')
            /\ _queue_entry' = None
            /\ _data_collection_group' = None
            /\ _server_subprocess_names' = <<>>
            /\ _workflow_queue' = None
       /\ (last.op = "post_execute" /\ last'.op = "pre_execute") =>
            /\ last'.raised = None
            /\ state' = "BUSY"
            /\ _queue_entry' # None]_vars

\* a second run has been accepted: the fine-zoom flag set by a centring
\* request of the run before is still there, and the state is BUSY
C28_Witness ==
    /\ last.op = "pre_execute"
    /\ last.raised = None
    /\ _use_fine_zoom
    /\ state = "BUSY"
    /\ _queue_entry # None
    /\ _data_collection_group = None
    /\ _server_subprocess_names = <<>>

\* a call of the recen program
IsRecenCall(call) == call.op = "subprocess.check_output" /\ call.target = "recen"

\* a line holding the three translation values
HoldsTranslationValues(line) ==
    /\ IsTranslationLine(line)
    /\ Len(line) >= 4
    /\ \A i \in (Len(line) - 2)..Len(line) : IsFloat(line[i])

\* the program ended normally and its output has the termination line
\* followed by a line holding the three translation values
TerminationThenValues(output) ==
    /\ output.returncode = 0
    /\ \E i \in 1..Len(output.lines) :
         /\ IsTerminationLine(output.lines[i])
         /\ \E j \in (i + 1)..Len(output.lines) :
              HoldsTranslationValues(output.lines[j])

\* C30: every call of the recen program made while a strategy is handled
\* returns a three-axis translation exactly when the output has the
\* termination line followed by a line holding the three translation
\* values; otherwise it returns an empty result; it never raises, and
\* neither does the handler because of it.
C30_TranslationIffTerminationThenValues ==
    [][last'.handler = "setup_data_collection" =>
         \A i \in 1..Len(last'.calls) :
            IsRecenCall(last'.calls[i]) =>
               LET run == last'.calls[i].detail
                   recen == parse_recen_output(run.output)
               IN  /\ recen.raised = None
                   /\ last'.raised \notin {"ValueError", "IndexError"}
                   /\ Len(recen.result) = 3 <=> TerminationThenValues(run.output)
                   /\ ~ TerminationThenValues(run.output) => recen.result = <<>>]_vars

\* the reading of a centring result that is not there
IsMissingResult(call) == call.op = "get_centring_result" /\ ~call.detail.result

\* C31: when an executed centring task yields no centring result, whether
\* or not its execution raised, the handler raises RuntimeError, returns no
\* response and leaves the goniostat translations as they were.
C31_NoResultRaisesRuntimeError ==
    [][(\E i \in 1..Len(last'.calls) : IsMissingResult(last'.calls[i]))
         => /\ last'.raised = "RuntimeError"
            /\ last'.response = NoneResponse
            /\ ~last'.appended
            /\ data_model'.goniostat_translations
                   = data_model.goniostat_translations]_vars

\* the second centring of a strategy raised in execution and left no
\* result: the handler raised although the first centring had succeeded
C31_Witness ==
    /\ last.handler = "setup_data_collection"
    /\ last.raised = "RuntimeError"
    /\ data_model.goniostat_translations = <<>>
    /\ Len(SelectSeq(last.calls, IsCentringExecution)) = 2
    /\ \E i \in 1..Len(last.calls) :
         /\ last.calls[i].op = "emit"
         /\ last.calls[i].target = "queue_execution_failed"
    /\ \E i \in 1..Len(last.calls) : IsMissingResult(last.calls[i])

\* C32: the dose-budget computation fails with a validation error and
\* returns no budget whenever the decay limit is less than or equal to 0 or
\* the resolution is less than 0.
C32_BudgetValidatesArguments ==
    [][(/\ last'.op = "resolution2dose_budget"
        /\ \/ last'.msg.payload.decay_limit <= 0
           \/ last'.msg.payload.resolution < 0)
         => /\ last'.raised = "ValidationError"
            /\ last'.response = NoneResponse]_vars

\* the exposure time needed for the dose of a values map: the given one,
\* or the longer one that reaches the dose at full transmission
NeededExposure(p) ==
    IF p.use_dose * p.image_width
          > p.std_dose_rate * p.exposure * p.total_strategy_length
    THEN Ratio(p.use_dose * p.image_width,
               p.std_dose_rate * p.total_strategy_length)
    ELSE Whole(p.exposure)

\* C33: the dose-driven update never sets a transmission above 100 nor,
\* with a maximum exposure time configured, an exposure above it; when the
\* exposure needed exceeds the maximum, the exposure is set to the maximum,
\* the transmission to 100 and the dose to the dose achieved at that
\* exposure.
C33_UpdateDoseClamps ==
    [][(last'.op = "update_dose" /\ last'.response.type = "values")
         => LET p == last'.msg.payload
                v == last'.response
            IN  /\ ~ Exceeds(v.transmission, Whole(100))
                /\ p.max_exposure # 0
                     => ~ Exceeds(v.exposure, Whole(p.max_exposure))
                /\ (/\ p.max_exposure # 0
                    /\ Exceeds(NeededExposure(p), Whole(p.max_exposure)))
                     => /\ v.exposure = Whole(p.max_exposure)
                        /\ v.transmission = Whole(100)
                        /\ v.use_dose =
                              Ratio(p.std_dose_rate * p.max_exposure
                                       * p.total_strategy_length,
                                    p.image_width)]_vars

\* a dose that needs an exposure of 8 against a maximum of 2 was clamped
C33_Witness ==
    /\ last.op = "update_dose"
    /\ last.msg.payload.use_dose = 40
    /\ last.msg.payload.exposure = 1
    /\ last.msg.payload.max_exposure = 2
    /\ last.msg.payload.std_dose_rate = 1
    /\ last.msg.payload.image_width = 2
    /\ last.msg.payload.total_strategy_length = 10
    /\ last.response.type = "values"
    /\ last.response.exposure = Whole(2)
    /\ last.response.use_dose = Whole(10)

\* the value a collaborator returned in the call named op, or -1
Returned(calls, op) ==
    IF \E i \in 1..Len(calls) : calls[i].op = op
    THEN calls[CHOOSE i \in 1..Len(calls) : calls[i].op = op].detail.value
    ELSE 0 - 1

\* C34: in the GeometricStrategy handler, outside characterisation, when
\* the transmission calculated from the dose exceeds 100 the transmission
\* of the data model is set to 100 and its exposure time is raised, but
\* never above the detector's maximum exposure time.
C34_ExposureCompensatesUpToMaximum ==
    [][(/\ last'.op = "iteration"
        /\ last'.handler = "setup_data_collection"
        /\ not_characterisation(data_model)
        /\ Returned(last'.calls, "calculate_transmission") > 100)
         => /\ data_model'.transmission = 100
            /\ data_model'.exposure_time >= data_model.exposure_time
            /\ Returned(last'.calls, "get_exposure_time_limits") > 0
                 => data_model'.exposure_time
                       <= Returned(last'.calls, "get_exposure_time_limits")]_vars

\* C35: pre_execute called while the state is not READY, for example a
\* second start while BUSY, fails with an error and leaves the state, the
\* queue entry, the inbound queue and the session's data as they are.
C35_BusyStartRefused ==
    [][(/\ last'.op = "pre_execute"
        /\ pc # "pre_params"
        /\ state # "READY")
         => /\ last'.raised = "RuntimeError"
            /\ UNCHANGED << state, specific_state, _queue_entry,
                            _workflow_queue, queue, data_model, pc, current,
                            results >>]_vars

\* a second start was refused while a message of the running session was
\* waiting in the inbound queue
C35_Witness ==
    /\ last.op = "pre_execute"
    /\ last.raised = "RuntimeError"
    /\ state = "BUSY"
    /\ _queue_entry # None
    /\ queue # <<>>
    /\ pc = "loop"

\* the stop sentinel is the first item of the inbound queue of a run whose
\* loop has not ended
SentinelFirst ==
    /\ pc \in {"pre_done", "loop"}
    /\ _workflow_queue # None
    /\ queue # <<>>
    /\ Head(queue) = StopIteration

\* C36: when the pre-strategy parameter input is short-circuited with the
\* stop sentinel during pre_execute, the specific state becomes FAULT and
\* the sentinel is the first item of the inbound queue; it stays first
\* whatever the engine enqueues, the loop of execute ends at it, and no
\* handler is invoked before the run is over.
C36_StoppedStartHandlesNothing ==
    [][/\ (last'.op = "pre_execute" /\ last'.msg.payload.type = "StopIteration")
          => /\ specific_state' = "FAULT"
             /\ queue' = << StopIteration >>
             /\ last'.raised = None
             /\ SentinelFirst'
       /\ SentinelFirst
          => /\ last'.handler = None
             /\ results' = results
             /\ pc' \in {"pre_done", "loop"} => SentinelFirst'
             /\ last'.op = "iteration" => pc' = "returned"
       /\ pc = "returned" => last'.handler = None /\ results' = results]_vars

\* the loop of a run stopped at its start has ended at the sentinel: the
\* messages the engine enqueued since are still in the queue, unhandled
C36_Witness ==
    /\ pc = "returned"
    /\ specific_state = "FAULT"
    /\ last.op = "iteration"
    /\ last.msg = StopIteration
    /\ Len(queue) = MaxMessages
    /\ \A i \in 1..Len(queue) : queue[i] # StopIteration
    /\ results = NoResults

\* C37: when a handler raises, the exception leaves the loop of execute: no
\* pair is appended to the result list of the message, the specific state
\* is left as it was, and no later message is handled in that run.
C37_HandlerErrorLeavesLoop ==
    [][/\ (/\ last'.op \in {"iteration", "resume"}
           /\ last'.handler # None
           /\ last'.raised # None)
          => /\ results' = results
             /\ ~ last'.appended
             /\ specific_state' = specific_state
             /\ pc' = "raised"
       /\ pc = "raised"
          => /\ last'.handler = None
             /\ results' = results
             /\ last'.op \notin {"iteration", "resume"}]_vars

\* a centring request with a result list raised for want of a centring
\* result; the message enqueued behind it stays unhandled
C37_Witness ==
    /\ pc = "raised"
    /\ last.handler = "process_centring_request"
    /\ last.raised = "RuntimeError"
    /\ last.msg.result_list # None
    /\ results = NoResults
    /\ specific_state = "BUSY"
    /\ queue # <<>>

C39_PendingFutureOnlyWhileBlocked ==
    _return_parameters # None => pc \in {"wait_params", "pre_params"}

\* C40: a SubprocessStopped for a correlation id that is not tracked raises
\* no error and leaves self._server_subprocess_names unchanged, and a
\* SubprocessStarted with an empty (falsy) correlation id adds no entry.
C40_UntrackedIdsLeaveNamesAlone ==
    [][/\ (/\ last'.handler = "echo_subprocess_stopped"
           /\ last'.msg.correlation_id \notin DOMAIN _server_subprocess_names)
          => /\ last'.raised = None
             /\ _server_subprocess_names' = _server_subprocess_names
       /\ (/\ last'.handler = "echo_subprocess_started"
           /\ last'.msg.correlation_id = 0)
          => /\ last'.raised = None
             /\ _server_subprocess_names' = _server_subprocess_names]_vars

\* a stop for an id nobody registered was logged as an unknown process while
\* another subprocess stays tracked
C40_Witness ==
    /\ last.handler = "echo_subprocess_stopped"
    /\ last.raised = None
    /\ last.calls = << LogCall("Unknown process", "FINISHED") >>
    /\ DOMAIN _server_subprocess_names # {}
    /\ last.msg.correlation_id \notin DOMAIN _server_subprocess_names

====
